---- MODULE Spec2Model ----
(***************************************************************************)
(* M5Siv3D: the frame loop (System::update), the touch snapshot            *)
(* (Input::TouchInput), the buttons (Input::ButtonState), the attitude     *)
(* filter (Input::IMU), the shapes' containment tests and touch predicates *)
(* (Shapes.h), the RGB565 conversions (Color.h), Image::loadBase64 and     *)
(* SimpleGUI::Button, CheckBox and Slider.                                 *)
(*                                                                         *)
(* Numbers.  millis() and the fields derived from it are uint32_t.  A      *)
(* 32-bit unsigned value is kept as two 16-bit limbs [hi, lo] (value =     *)
(* hi * 65536 + lo) and the arithmetic is done limb-wise modulo 2^32.      *)
(* m_deltaTime is kept in milliseconds (the code divides that number by    *)
(* 1000.0f); m_averageFrameTime is kept as the sequence of frame times     *)
(* folded into it so far (the code's value is the fold of                  *)
(* a -> a * 0.9f + d * 0.1f over that sequence, starting at                *)
(* FRAME_INTERVAL).                                                        *)
(***************************************************************************)
EXTENDS Integers, Sequences, FiniteSets, TLC

VARIABLES
    now,                \* the hardware millisecond clock, what millis() returns
    pc,                 \* "boot" before System::init, "loop" after it
    running,            \* the value the last System::update() returned
    calls,              \* number of System::update() calls made so far
    lastDrawTime,       \* System::lastDrawTime
    m_deltaTime,        \* System::m_deltaTime, in milliseconds
    m_averageFrameTime, \* System::m_averageFrameTime, as the frame times fed
    m_frameCount,       \* System::m_frameCount
    m_previousTime,     \* System::m_previousTime
    canvas,             \* the off-screen sprite: "none", "created", "cleared", "drawn"
    display,            \* what the last pushSprite showed ("none" before any)
    blits,              \* number of endDraw() calls
    clears,             \* number of beginDraw() calls
    refreshes,          \* number of InputManager::update() calls
    effects,            \* the side effects of the last update() call, in order
    hw,                 \* what M5.Touch.getDetail() would return now
    hwEnabled,          \* what M5.Touch.isEnabled() would return now
    cur,                \* TouchInput::m_currentTouchState
    prev,               \* TouchInput::m_previousTouchState
    obs,                \* the last query the caller made since the last refresh
    hist,                \* the hardware samples the direct refreshes have read
    callLog,   \* the update() calls of a logged run: entry clock, committed or not
    m_backgroundColor,   \* System::m_backgroundColor, a colour name
    canvasFill,   \* what the sprite was last filled with: "none", "raw" (created, never filled) or a colour
    call,   \* the last call of a pure function: its name, arguments and result
    m_currentAngles,   \* IMU::m_currentAngles: roll, pitch, yaw in degrees, exact rationals
    image,   \* an Image object: m_canvas, its sprite, m_valid, m_width, m_height
    btnHw,   \* the physical level of button A: TRUE while it is held
    btn,   \* M5.BtnA as M5.update() left it: the level read last and the one before
    slack,   \* logged runs: the slack step of the last committed call (time spent, M5.delay's argument)
    checked,   \* the caller's bool handed to SimpleGUI::CheckBox
    value,   \* the caller's double handed to SimpleGUI::Slider, as an exact fraction
    edges,   \* direct refreshes: what down(), up() and pressed() report after each one
    uptime,   \* the time since the clock started, in ms, without the 32-bit wrap
    drawUptime   \* uptime at which lastDrawTime was last assigned

vars == <<now, pc, running, calls, lastDrawTime, m_deltaTime, m_averageFrameTime,
          m_frameCount, m_previousTime, canvas, display, blits, clears, refreshes,
          effects, hw, hwEnabled, cur, prev, obs, hist,
          callLog,
          m_backgroundColor,
          canvasFill,
          call,
          m_currentAngles,
          image,
          btnHw,
          btn,
          slack,
          checked,
          value,
          edges,
          uptime,
          drawUptime>>

----------------------------------------------------------------------------
(* Bounds of the model *)

MaxCalls == 3
MaxIdle == 20
MaxRefresh == 3
MaxGap == 0
MaxOver == 0
MaxLogged == 4
MaxFrames == 2
GridMax == 6
MaxSide == 3
MaxRadius == 5
MaxImuCalls == 2
MaxVertex == 2

(* Program constants *)

FRAME_INTERVAL == 16

----------------------------------------------------------------------------
(* uint32_t arithmetic on limbs *)

Limb == 2^16

U32(n) == [hi |-> n \div Limb, lo |-> n % Limb]

U32Add(a, n) ==
    LET lo == a.lo + n
    IN  [hi |-> (a.hi + lo \div Limb) % Limb, lo |-> lo % Limb]

U32Sub(a, b) ==
    LET lo == a.lo - b.lo
        borrow == IF lo < 0 THEN 1 ELSE 0
    IN  [hi |-> (a.hi - b.hi - borrow) % Limb, lo |-> lo % Limb]

U32Ge(a, n) == a.hi > 0 \/ a.lo >= n

ToInt32(a) ==
    IF a.hi >= Limb \div 2 THEN (a.hi - Limb) * Limb + a.lo ELSE a.hi * Limb + a.lo

----------------------------------------------------------------------------
(* The touch hardware and the shapes the caller tests *)

\* <<5, 5>> lies in TheCircle and TheRect, <<12, 13>> in TheTriangle only.
TouchPoints == {<<5, 5>>, <<12, 13>>}

TouchState(x, y, pressed) == [x |-> x, y |-> y, pressed |-> pressed]

Samples == {TouchState(p[1], p[2], b) : p \in TouchPoints, b \in BOOLEAN}

InitialTouchState == TouchState(0, 0, FALSE)

TheCircle == [kind |-> "Circle", x |-> 5, y |-> 5, r |-> 10]
TheRect == [kind |-> "Rect", x |-> 0, y |-> 0, width |-> 10, height |-> 10]
TheTriangle ==
    [kind |-> "Triangle", x1 |-> 10, y1 |-> 10, x2 |-> 20, y2 |-> 10, x3 |-> 10, y3 |-> 20]

Shapes == {TheCircle, TheRect, TheTriangle}

Abs(n) == IF n < 0 THEN -n ELSE n

\* Circle::contains with an open disc.
CircleContains_Open(c, point) ==
    LET dx == point[1] - c.x
        dy == point[2] - c.y
    IN  (dx * dx + dy * dy) < (c.r * c.r)

CircleContains(c, point) ==
    LET dx == point[1] - c.x
        dy == point[2] - c.y
    IN  (dx * dx + dy * dy) <= (c.r * c.r)

\* Rect::contains with the right and bottom edges inside.
RectContains_Closed(r, point) ==
    /\ point[1] >= r.x /\ point[1] <= (r.x + r.width)
    /\ point[2] >= r.y /\ point[2] <= (r.y + r.height)

RectContains(r, point) ==
    /\ point[1] >= r.x /\ point[1] < (r.x + r.width)
    /\ point[2] >= r.y /\ point[2] < (r.y + r.height)

\* area() returns |n| / 2.0f for an integer n; Area2 is that n, twice the area.
Area2(x1, y1, x2, y2, x3, y3) == Abs(x1 * (y2 - y3) + x2 * (y3 - y1) + x3 * (y1 - y2))

\* abs(A - (A1 + A2 + A3)) < 0.1f, with every area half of an integer:
\* |a - (a1 + a2 + a3)| / 2 < 1 / 10.
TriangleContains(t, point) ==
    LET A == Area2(t.x1, t.y1, t.x2, t.y2, t.x3, t.y3)
        A1 == Area2(point[1], point[2], t.x2, t.y2, t.x3, t.y3)
        A2 == Area2(t.x1, t.y1, point[1], point[2], t.x3, t.y3)
        A3 == Area2(t.x1, t.y1, t.x2, t.y2, point[1], point[2])
    IN  5 * Abs(A - (A1 + A2 + A3)) < 1

Contains(shape, point) ==
    CASE shape.kind = "Circle" -> CircleContains(shape, point)
      [] shape.kind = "Rect" -> RectContains(shape, point)
      [] shape.kind = "Triangle" -> TriangleContains(shape, point)

----------------------------------------------------------------------------
(* Color: the RGB565 conversions, bit by bit *)

RECURSIVE BitAnd(_, _)
BitAnd(a, b) ==
    IF a = 0 \/ b = 0 THEN 0
    ELSE (a % 2) * (b % 2) + 2 * BitAnd(a \div 2, b \div 2)

RECURSIVE BitOr(_, _)
BitOr(a, b) ==
    IF a = 0 THEN b
    ELSE IF b = 0 THEN a
    ELSE (IF a % 2 = 1 \/ b % 2 = 1 THEN 1 ELSE 0) + 2 * BitOr(a \div 2, b \div 2)

Shr(a, n) == a \div (2^n)
Shl(a, n) == a * (2^n)

\* Conversion to uint8_t and to uint16_t.
Uint8(n) == n % (2^8)
Uint16(n) == n % (2^16)

\* Color::Color(uint16_t rgb565)
ColorFromRGB565(rgb565) ==
    LET r == Uint8(BitAnd(Shr(rgb565, 8), 248))
        g == Uint8(BitAnd(Shr(rgb565, 3), 252))
        b == Uint8(BitAnd(Shl(rgb565, 3), 248))
    IN  [r |-> Uint8(BitOr(r, Shr(r, 5))),
         g |-> Uint8(BitOr(g, Shr(g, 6))),
         b |-> Uint8(BitOr(b, Shr(b, 5)))]

\* toRGB565 without the masks that drop the low bits of r and g.
toRGB565_Unmasked(c) ==
    Uint16(BitOr(BitOr(Shl(c.r, 8), Shl(c.g, 3)), Shr(c.b, 3)))

\* Color::toRGB565
toRGB565(c) ==
    Uint16(BitOr(BitOr(Shl(BitAnd(c.r, 248), 8), Shl(BitAnd(c.g, 252), 3)),
                 Shr(c.b, 3)))

RGB565Values == 0 .. (2^16 - 1)

----------------------------------------------------------------------------
(* Input::IMU.  A float is kept as an exact rational [n, d] in lowest terms  *)
(* (d > 0): the model covers finite values and leaves rounding aside.       *)

RECURSIVE GCD(_, _)
GCD(a, b) == IF b = 0 THEN a ELSE GCD(b, a % b)

Rat(n, d) ==
    LET g == GCD(Abs(n), d)
    IN  [n |-> n \div g, d |-> d \div g]

RatAdd(a, b) == Rat(a.n * b.d + b.n * a.d, a.d * b.d)
RatSub(a, b) == Rat(a.n * b.d - b.n * a.d, a.d * b.d)
RatMul(a, b) == Rat(a.n * b.n, a.d * b.d)

\* atan2f(y, x) * 180.0f / M_PI for y, x in {-1, 0, 1}, in degrees.
Atan2Deg(y, x) ==
    CASE y = 0 /\ x >= 0 -> 0
      [] y = 0 /\ x < 0 -> 180
      [] y > 0 /\ x = 0 -> 90
      [] y > 0 /\ x > 0 -> 45
      [] y > 0 /\ x < 0 -> 135
      [] y < 0 /\ x = 0 -> -90
      [] y < 0 /\ x > 0 -> -45
      [] y < 0 /\ x < 0 -> -135

\* sqrtf(n) for n in {0, 1}.
Sqrt01(n) == n

\* The accelerometer readings of the model, in G: the device flat, upright,
\* tilted to the right, upside down.
AccelSamples ==
    {[x |-> 0, y |-> 0, z |-> 1], [x |-> 0, y |-> 1, z |-> 0],
     [x |-> -1, y |-> 0, z |-> 0], [x |-> 0, y |-> 0, z |-> -1]}

\* The gyroscope readings of the model, in deg/s.
GyroSamples == {[x |-> 0, y |-> 0, z |-> 0], [x |-> 10, y |-> -20, z |-> 30]}

DeltaTimes == {Rat(1, 2), Rat(1, 1)}
Alphas == {Rat(0, 1), Rat(24, 25), Rat(1, 1)}
GyroScales == {Rat(1, 1), Rat(2, 1)}

ZeroAngles == [roll |-> Rat(0, 1), pitch |-> Rat(0, 1), yaw |-> Rat(0, 1)]

\* The three angles updateAttitude derives from the accelerometer.
AccelAngles(accel) ==
    [pitch |-> Rat(Atan2Deg(-accel.x, Sqrt01(accel.y * accel.y + accel.z * accel.z)), 1),
     roll |-> Rat(Atan2Deg(accel.y, accel.z), 1),
     yaw |-> Rat(Atan2Deg(accel.x, accel.y), 1)]

\* complementaryFilter with the two weights exchanged.
complementaryFilter_Swapped(accelAngle, gyroRate, deltaTime, currentAngle, alpha, gyroScale) ==
    LET gyroAngle == RatAdd(currentAngle,
                            RatMul(RatMul(Rat(gyroRate, 1), gyroScale), deltaTime))
    IN  RatAdd(RatMul(alpha, accelAngle),
               RatMul(RatSub(Rat(1, 1), alpha), gyroAngle))

\* IMU::complementaryFilter
complementaryFilter(accelAngle, gyroRate, deltaTime, currentAngle, alpha, gyroScale) ==
    LET gyroAngle == RatAdd(currentAngle,
                            RatMul(RatMul(Rat(gyroRate, 1), gyroScale), deltaTime))
    IN  RatAdd(RatMul(alpha, gyroAngle),
               RatMul(RatSub(Rat(1, 1), alpha), accelAngle))

\* IMU::updateAttitude: the angles it stores, given the sensor readings.
updateAttitude(angles, accel, gyro, deltaTime, alpha, gyroScale) ==
    LET a == AccelAngles(accel)
    IN  [roll |-> complementaryFilter(a.roll, gyro.x, deltaTime, angles.roll,
                                      alpha, gyroScale),
         pitch |-> complementaryFilter(a.pitch, gyro.y, deltaTime, angles.pitch,
                                       alpha, gyroScale),
         yaw |-> complementaryFilter(a.yaw, gyro.z, deltaTime, angles.yaw,
                                     alpha, gyroScale)]

----------------------------------------------------------------------------
(* Image *)

NoSprite == [allocated |-> FALSE, width |-> 0, height |-> 0]

\* Image::Image: the canvas object exists, it holds no sprite.
NewImage ==
    [m_canvas |-> TRUE, sprite |-> NoSprite, m_valid |-> FALSE, m_width |-> 0,
     m_height |-> 0]

\* What loadBase64 finds in its argument: the length decode_base64_length
\* announces, the length decode_base64 delivers, whether the bytes start with
\* the PNG signature, the dimensions in the IHDR chunk, and whether
\* createSprite and drawPng succeed on it.
Base64Inputs ==
    {[decodedLen |-> l[1], actualLen |-> l[2], signature |-> sig, dims |-> d,
      allocOk |-> a, drawOk |-> dr] :
        l \in {<<0, 0>>, <<30, 0>>, <<30, 10>>, <<30, 30>>}, sig \in BOOLEAN,
        d \in {<<2, 3>>, <<4, 4>>}, a \in BOOLEAN, dr \in BOOLEAN}

\* Image::loadBase64: the object after the call, ret the value returned.
loadBase64(img, in) ==
    IF ~img.m_canvas THEN [img |-> img, ret |-> FALSE]
    ELSE LET img1 == [img EXCEPT !.sprite = NoSprite, !.m_valid = FALSE]
         IN  IF in.decodedLen = 0 THEN [img |-> img1, ret |-> FALSE]
             ELSE IF in.actualLen = 0 THEN [img |-> img1, ret |-> FALSE]
             ELSE IF in.actualLen < 24 \/ ~in.signature
                  THEN [img |-> img1, ret |-> FALSE]
             ELSE LET img2 == [img1 EXCEPT !.m_width = in.dims[1],
                                           !.m_height = in.dims[2]]
                  IN  IF ~in.allocOk THEN [img |-> img2, ret |-> FALSE]
                      ELSE LET img3 == [img2 EXCEPT !.sprite =
                                           [allocated |-> TRUE, width |-> in.dims[1],
                                            height |-> in.dims[2]]]
                           IN  IF ~in.drawOk THEN [img |-> img3, ret |-> FALSE]
                               ELSE [img |-> [img3 EXCEPT !.m_valid = TRUE],
                                     ret |-> TRUE]

\* Image::create
create(img, width, height, allocOk) ==
    IF ~img.m_canvas THEN [img |-> img, ret |-> FALSE]
    ELSE LET img1 == [img EXCEPT !.sprite = NoSprite, !.m_valid = FALSE]
         IN  IF ~allocOk THEN [img |-> img1, ret |-> FALSE]
             ELSE [img |-> [img1 EXCEPT !.sprite = [allocated |-> TRUE,
                                                    width |-> width,
                                                    height |-> height],
                                        !.m_width = width, !.m_height = height,
                                        !.m_valid = TRUE],
                   ret |-> TRUE]

\* Image::isEmpty
isEmpty(img) == ~img.m_valid \/ ~img.m_canvas

----------------------------------------------------------------------------
(* Input::TouchInput queries: they read the two retained generations *)

TouchPos == <<cur.x, cur.y>>

\* pressed() reading the hardware instead of the snapshot.
TouchPressed_Live == hw.pressed

TouchPressed == cur.pressed

\* down() as a level: true for as long as the panel is pressed.
TouchDown_Level == cur.pressed

TouchDown == cur.pressed /\ ~prev.pressed

\* up() reporting the released level instead of the edge.
TouchUp_Level == ~cur.pressed

TouchUp == ~cur.pressed /\ prev.pressed

(* Circle / Rect / Triangle :: touchOver, touched, released, pressed *)

CircleTouchOver(c) == CircleContains(c, TouchPos)
CircleTouched(c) == TouchDown /\ CircleContains(c, TouchPos)
CircleReleased(c) == TouchUp /\ CircleContains(c, TouchPos)
\* Circle::pressed() true at the press edge only.
CirclePressed_Edge(c) == TouchDown /\ CircleContains(c, TouchPos)
CirclePressed(c) == TouchPressed /\ CircleContains(c, TouchPos)

RectTouchOver(r) == RectContains(r, TouchPos)
RectTouched(r) == TouchDown /\ RectContains(r, TouchPos)
\* Rect::released() testing the position of the generation before the release.
RectReleased_PressPos(r) == TouchUp /\ RectContains(r, <<prev.x, prev.y>>)
RectReleased(r) == TouchUp /\ RectContains(r, TouchPos)
RectPressed(r) == TouchPressed /\ RectContains(r, TouchPos)

\* Triangle::touchOver() true only while the panel is pressed.
TriangleTouchOver_NeedsPress(t) == TouchPressed /\ TriangleContains(t, TouchPos)
TriangleTouchOver(t) == TriangleContains(t, TouchPos)
TriangleTouched(t) == TouchDown /\ TriangleContains(t, TouchPos)
TriangleReleased(t) == TouchUp /\ TriangleContains(t, TouchPos)
TrianglePressed(t) == TouchPressed /\ TriangleContains(t, TouchPos)

(* Input::ButtonState, over m5::Button_Class *)

ReleasedButton == [press |-> FALSE, oldPress |-> FALSE]

\* m5::Button_Class::isPressed, isReleased, wasPressed, wasReleased
isPressed == btn.press
isReleased == ~btn.press
wasPressed == btn.press /\ ~btn.oldPress
wasReleased == ~btn.press /\ btn.oldPress

\* ButtonState::down, up, pressed, released
ButtonDown == isPressed
ButtonUp == isReleased
ButtonPressed == wasPressed
ButtonReleased == wasReleased

ButtonMethods == {"down", "up", "pressed", "released"}

\* The value a query of ButtonA returns in the current state.
ButtonQueryValue(m) ==
    CASE m = "down" -> ButtonDown
      [] m = "up" -> ButtonUp
      [] m = "pressed" -> ButtonPressed
      [] m = "released" -> ButtonReleased

(* SimpleGUI::Button *)

DefaultHeight == 24
DefaultWidth == 120

\* SimpleGUI::ButtonRegion
ButtonRegion(pos, width) ==
    [kind |-> "Rect", x |-> pos[1], y |-> pos[2], width |-> width,
     height |-> DefaultHeight]

\* Button reporting a release on a disabled button too.
Button_IgnoresEnabled(pos, width, enabled) == RectReleased(ButtonRegion(pos, width))

\* SimpleGUI::Button, the value it returns.
Button(pos, width, enabled) == enabled /\ RectReleased(ButtonRegion(pos, width))

\* The places and widths the model's buttons are given.
ButtonPositions == {<<0, 0>>, <<10, -11>>, <<10, -10>>}
ButtonWidths == {10, DefaultWidth}

\* Style::DefaultPadding
DefaultPadding == 4

\* SimpleGUI::CheckBoxRegion
CheckBoxRegion(pos) ==
    [kind |-> "Rect", x |-> pos[1], y |-> pos[2], width |-> DefaultHeight,
     height |-> DefaultHeight]

\* CheckBox hit-testing its whole background instead of the box.
CheckBox_WholeBackground(c, pos, width, enabled) ==
    LET background == [kind |-> "Rect", x |-> pos[1], y |-> pos[2],
                       width |-> width, height |-> DefaultHeight]
    IN  IF enabled /\ RectReleased(background)
        THEN [checked |-> ~c, ret |-> TRUE]
        ELSE [checked |-> c, ret |-> FALSE]

\* SimpleGUI::CheckBox: the caller's bool after the call and the value
\* returned.  The drawing does not read the touch state.
CheckBox(c, pos, width, enabled) ==
    LET box == CheckBoxRegion(pos)
    IN  IF enabled /\ RectReleased(box)
        THEN [checked |-> ~c, ret |-> TRUE]
        ELSE [checked |-> c, ret |-> FALSE]

\* The places and widths the model's check boxes are given: with the touch
\* points (5, 5) and (12, 13), a box holding both, a box holding only the
\* second, and a box holding only the first whose background holds both.
CheckBoxPositions == {<<0, 0>>, <<10, -10>>, <<-15, 0>>}
CheckBoxWidths == {DefaultHeight, DefaultWidth}

\* operator < of double
RatLess(a, b) == a.n * b.d < b.n * a.d

\* Math::clamp
clamp(v, min, max) ==
    IF RatLess(v, min) THEN min ELSE IF RatLess(max, v) THEN max ELSE v

\* SimpleGUI::SliderRegion
SliderRegion(pos, width) ==
    [kind |-> "Rect", x |-> pos[1], y |-> pos[2], width |-> width,
     height |-> DefaultHeight]

\* Slider taking the touch offset from the slider's left edge, not the track's.
Slider_NoPadding(v, pos, min, max, width, enabled) ==
    LET slider == SliderRegion(pos, width)
    IN  IF enabled /\ RectPressed(slider)
        THEN LET touchX == TouchPos[1] - pos[1]
                 effectiveWidth == width - DefaultPadding * 2
             IN  [value |-> RatAdd(min, RatMul(RatSub(max, min),
                                clamp(Rat(touchX, effectiveWidth),
                                      Rat(0, 1), Rat(1, 1)))),
                  ret |-> TRUE]
        ELSE [value |-> v, ret |-> FALSE]

\* SimpleGUI::Slider: the caller's double after the call and the value
\* returned.  normalizedValue, activeWidth and thumbX go to the drawing only.
Slider(v, pos, min, max, width, enabled) ==
    LET slider == SliderRegion(pos, width)
    IN  IF enabled /\ RectPressed(slider)
        THEN LET touchX == TouchPos[1] - (pos[1] + DefaultPadding)
                 effectiveWidth == width - DefaultPadding * 2
             IN  [value |-> RatAdd(min, RatMul(RatSub(max, min),
                                clamp(Rat(touchX, effectiveWidth),
                                      Rat(0, 1), Rat(1, 1)))),
                  ret |-> TRUE]
        ELSE [value |-> v, ret |-> FALSE]

\* The sliders of the model, as <<pos, width>>: with the touch points (5, 5)
\* and (12, 13), one whose track holds both, one pressed left of its track and
\* right of it, and one holding only the second point, left of its track.
\* The ranges have min < max and min = max.
Sliders == {<<<<0, 0>>, 16>>, <<<<3, 0>>, 10>>, <<<<10, -10>>, 10>>}
SliderRanges == {<<Rat(-2, 1), Rat(2, 1)>>, <<Rat(5, 1), Rat(5, 1)>>}

TouchQueries == {"pos", "pressed", "down", "up"}
ShapeMethods == {"touchOver", "touched", "released", "pressed"}

\* The value a query of the touch singleton returns in the current state.
TouchQueryValue(q) ==
    CASE q = "pos" -> TouchPos
      [] q = "pressed" -> TouchPressed
      [] q = "down" -> TouchDown
      [] q = "up" -> TouchUp

\* The value a touch predicate of a shape returns in the current state.
ShapeQueryValue(shape, m) ==
    CASE shape.kind = "Circle" ->
            (CASE m = "touchOver" -> CircleTouchOver(shape)
               [] m = "touched" -> CircleTouched(shape)
               [] m = "released" -> CircleReleased(shape)
               [] m = "pressed" -> CirclePressed(shape))
      [] shape.kind = "Rect" ->
            (CASE m = "touchOver" -> RectTouchOver(shape)
               [] m = "touched" -> RectTouched(shape)
               [] m = "released" -> RectReleased(shape)
               [] m = "pressed" -> RectPressed(shape))
      [] shape.kind = "Triangle" ->
            (CASE m = "touchOver" -> TriangleTouchOver(shape)
               [] m = "touched" -> TriangleTouched(shape)
               [] m = "released" -> TriangleReleased(shape)
               [] m = "pressed" -> TrianglePressed(shape))

----------------------------------------------------------------------------
(* The program's mutable fields as one record, so that the steps of        *)
(* System::update compose in the order the code runs them.                 *)

Prog ==
    [now |-> now, lastDrawTime |-> lastDrawTime, m_deltaTime |-> m_deltaTime,
     m_averageFrameTime |-> m_averageFrameTime, m_frameCount |-> m_frameCount,
     m_previousTime |-> m_previousTime, canvas |-> canvas, display |-> display,
     blits |-> blits, clears |-> clears, refreshes |-> refreshes,
     effects |-> effects, cur |-> cur, prev |-> prev, ret |-> running,
     m_backgroundColor |-> m_backgroundColor, canvasFill |-> canvasFill,
     btn |-> btn, slack |-> slack, uptime |-> uptime]

Commit(s) ==
    /\ now' = s.now
    /\ lastDrawTime' = s.lastDrawTime
    /\ m_deltaTime' = s.m_deltaTime
    /\ m_averageFrameTime' = s.m_averageFrameTime
    /\ m_frameCount' = s.m_frameCount
    /\ m_previousTime' = s.m_previousTime
    /\ canvas' = s.canvas
    /\ display' = s.display
    /\ blits' = s.blits
    /\ clears' = s.clears
    /\ refreshes' = s.refreshes
    /\ effects' = s.effects
    /\ cur' = s.cur
    /\ prev' = s.prev
    /\ running' = s.ret
    /\ m_backgroundColor' = s.m_backgroundColor
    /\ canvasFill' = s.canvasFill
    /\ btn' = s.btn
    /\ uptime' = s.uptime

\* No slack computed yet: nothing spent, M5.delay not called.
NoSlack == [spent |-> U32(0), remaining |-> 0, slept |-> FALSE]

\* Time passing while the program runs: the clock advances by d ms.
Elapse(s, d) == [s EXCEPT !.now = U32Add(@, d), !.uptime = @ + d]

\* System::endDraw: canvas.pushSprite(0, 0)
endDraw(s) ==
    [s EXCEPT !.display = s.canvas, !.blits = @ + 1, !.effects = Append(@, "blit")]

\* System::beginDraw: canvas.fillSprite(background)
beginDraw(s) ==
    [s EXCEPT !.canvas = "cleared", !.canvasFill = s.m_backgroundColor,
              !.clears = @ + 1, !.effects = Append(@, "clear")]

\* uint32_t subtraction read as a signed 32-bit number: the high limb of a
\* difference of 2^31 or more becomes negative.
Signed(a) == IF a.hi >= Limb \div 2 THEN [a EXCEPT !.hi = @ - Limb] ELSE a

\* updateTime taking the frame time as a signed difference.
updateTime_SignedDifference(s) ==
    LET currentTime == s.now
        frameTime == Signed(U32Sub(currentTime, s.m_previousTime))
    IN  [s EXCEPT !.m_deltaTime = frameTime,
                  !.m_averageFrameTime = Append(@, frameTime),
                  !.m_previousTime = currentTime,
                  !.m_frameCount = @ + 1,
                  !.effects = Append(@, "time")]

\* System::updateTime
updateTime(s) ==
    LET currentTime == s.now
        frameTime == U32Sub(currentTime, s.m_previousTime)
    IN  [s EXCEPT !.m_deltaTime = frameTime,
                  !.m_averageFrameTime = Append(@, frameTime),
                  !.m_previousTime = currentTime,
                  !.m_frameCount = @ + 1,
                  !.effects = Append(@, "time")]

\* M5.delay returning a millisecond before its argument has passed.
delay_WakesEarly(s, ms, over) ==
    [Elapse(s, ms - 1 + over) EXCEPT !.effects = Append(@, "sleep"),
                                     !.slack.remaining = ms,
                                     !.slack.slept = TRUE]

\* M5.delay(ms): returns after ms milliseconds, or `over` later.
delay(s, ms, over) ==
    [Elapse(s, ms + over) EXCEPT !.effects = Append(@, "sleep"),
                                 !.slack.remaining = ms,
                                 !.slack.slept = TRUE]

\* TouchInput::update copying current into previous after it has overwritten it.
TouchUpdate_LateCopy(s) ==
    LET s1 == IF hwEnabled
              THEN [s EXCEPT !.cur = TouchState(hw.x, hw.y, hw.pressed)]
              ELSE s
    IN  [s1 EXCEPT !.prev = s1.cur]

\* TouchInput::update dropping the pressed level while the controller is off.
TouchUpdate_ReleasesWhenOff(s) ==
    LET s1 == [s EXCEPT !.prev = s.cur]
    IN  IF hwEnabled
        THEN [s1 EXCEPT !.cur = TouchState(hw.x, hw.y, hw.pressed)]
        ELSE [s1 EXCEPT !.cur.pressed = FALSE]

\* TouchInput::update
TouchUpdate(s) ==
    LET s1 == [s EXCEPT !.prev = s.cur]
    IN  IF hwEnabled
        THEN [s1 EXCEPT !.cur = TouchState(hw.x, hw.y, hw.pressed)]
        ELSE s1

\* M5.update(), for the button: Button_Class keeps the level it read last
\* time and reads the level the button has now.
M5Update(s) == [s EXCEPT !.btn = [press |-> btnHw, oldPress |-> s.btn.press]]

\* InputManager::update: M5.update(), M5.Imu.update(), Touch.update()
InputManagerUpdate(s) ==
    [TouchUpdate(M5Update(s)) EXCEPT !.refreshes = @ + 1,
                                     !.effects = Append(@, "input")]

\* update() with the canvas cleared before the input refresh.
update_ClearBeforeInput(s, blit, gap, over) ==
    LET currentTime == s.now
        elapsedTime == U32Sub(currentTime, s.lastDrawTime)
    IN  IF U32Ge(elapsedTime, FRAME_INTERVAL)
        THEN LET s1 == Elapse(endDraw(s), blit)
                 s2 == updateTime(s1)
                 s3 == Elapse([s2 EXCEPT !.lastDrawTime = currentTime], gap)
                 remaining ==
                     ToInt32(U32Sub(U32(FRAME_INTERVAL), U32Sub(s3.now, currentTime)))
                 s4 == IF remaining > 0 THEN delay(s3, remaining, over) ELSE s3
                 s5 == beginDraw(s4)
             IN  [InputManagerUpdate(s5) EXCEPT !.ret = TRUE]
        ELSE [s EXCEPT !.ret = TRUE]

\* update() that restarts the pacing timer on every call, early ones included.
update_RestartsTimerWhenEarly(s, blit, gap, over) ==
    LET currentTime == s.now
        elapsedTime == U32Sub(currentTime, s.lastDrawTime)
    IN  IF U32Ge(elapsedTime, FRAME_INTERVAL)
        THEN LET s1 == Elapse(endDraw(s), blit)
                 s2 == updateTime(s1)
                 s3 == Elapse([s2 EXCEPT !.lastDrawTime = currentTime], gap)
                 remaining ==
                     ToInt32(U32Sub(U32(FRAME_INTERVAL), U32Sub(s3.now, currentTime)))
                 s4 == IF remaining > 0 THEN delay(s3, remaining, over) ELSE s3
                 s5 == InputManagerUpdate(s4)
             IN  [beginDraw(s5) EXCEPT !.ret = TRUE]
        ELSE [s EXCEPT !.lastDrawTime = currentTime, !.ret = TRUE]

\* update() that polls the input on every call, early ones included.
update_PollsWhenEarly(s, blit, gap, over) ==
    LET currentTime == s.now
        elapsedTime == U32Sub(currentTime, s.lastDrawTime)
    IN  IF U32Ge(elapsedTime, FRAME_INTERVAL)
        THEN LET s1 == Elapse(endDraw(s), blit)
                 s2 == updateTime(s1)
                 s3 == Elapse([s2 EXCEPT !.lastDrawTime = currentTime], gap)
                 remaining ==
                     ToInt32(U32Sub(U32(FRAME_INTERVAL), U32Sub(s3.now, currentTime)))
                 s4 == IF remaining > 0 THEN delay(s3, remaining, over) ELSE s3
                 s5 == InputManagerUpdate(s4)
             IN  [beginDraw(s5) EXCEPT !.ret = TRUE]
        ELSE [InputManagerUpdate(s) EXCEPT !.ret = TRUE]

\* update() folding the frame statistics in on every call, due or not.
update_TimesEveryCall(s, blit, gap, over) ==
    LET currentTime == s.now
        elapsedTime == U32Sub(currentTime, s.lastDrawTime)
    IN  IF U32Ge(elapsedTime, FRAME_INTERVAL)
        THEN LET s1 == Elapse(endDraw(s), blit)
                 s2 == updateTime(s1)
                 s3 == Elapse([s2 EXCEPT !.lastDrawTime = currentTime], gap)
                 remaining == ToInt32(U32Sub(U32(FRAME_INTERVAL),
                                             U32Sub(s3.now, currentTime)))
                 s4 == IF remaining > 0 THEN delay(s3, remaining, over) ELSE s3
                 s5 == InputManagerUpdate(s4)
             IN  [beginDraw(s5) EXCEPT !.ret = TRUE]
        ELSE [updateTime(s) EXCEPT !.ret = TRUE]

update_Unpaced(s, blit, gap, over) ==
    LET s1 == Elapse(endDraw(s), blit)
        s2 == updateTime(s1)
        s3 == Elapse([s2 EXCEPT !.lastDrawTime = s.now], gap)
        s5 == InputManagerUpdate(s3)
    IN  [beginDraw(s5) EXCEPT !.ret = TRUE]

update_DueOneEarly(s, blit, gap, over) ==
    LET currentTime == s.now
        elapsedTime == U32Sub(currentTime, s.lastDrawTime)
    IN  IF U32Ge(elapsedTime, FRAME_INTERVAL - 1)
        THEN LET s1 == Elapse(endDraw(s), blit)
                 s2 == updateTime(s1)
                 s3 == Elapse([s2 EXCEPT !.lastDrawTime = currentTime], gap)
                 remaining ==
                     ToInt32(U32Sub(U32(FRAME_INTERVAL), U32Sub(s3.now, currentTime)))
                 s4 == IF remaining > 0 THEN delay(s3, remaining, over) ELSE s3
                 s5 == InputManagerUpdate(s4)
             IN  [beginDraw(s5) EXCEPT !.ret = TRUE]
        ELSE [s EXCEPT !.ret = TRUE]

\* update() comparing the clock with the deadline lastDrawTime + FRAME_INTERVAL,
\* computed without the 32-bit wrap, instead of the elapsed time with it.
update_ComparesDeadline(s, blit, gap, over) ==
    LET currentTime == s.now
        deadlineLo == s.lastDrawTime.lo + FRAME_INTERVAL
    IN  IF \/ currentTime.hi > s.lastDrawTime.hi
           \/ currentTime.hi = s.lastDrawTime.hi /\ currentTime.lo >= deadlineLo
        THEN LET s1 == Elapse(endDraw(s), blit)
                 s2 == updateTime(s1)
                 s3 == Elapse([s2 EXCEPT !.lastDrawTime = currentTime], gap)
                 spent == U32Sub(s3.now, currentTime)
                 remaining == ToInt32(U32Sub(U32(FRAME_INTERVAL), spent))
                 s3a == [s3 EXCEPT !.slack = [NoSlack EXCEPT !.spent = spent]]
                 s4 == IF remaining > 0 THEN delay(s3a, remaining, over) ELSE s3a
                 s5 == InputManagerUpdate(s4)
             IN  [beginDraw(s5) EXCEPT !.ret = TRUE]
        ELSE [s EXCEPT !.ret = TRUE]

\* update() sleeping a whole frame interval whatever the tick has spent.
update_SleepsFullInterval(s, blit, gap, over) ==
    LET currentTime == s.now
        elapsedTime == U32Sub(currentTime, s.lastDrawTime)
    IN  IF U32Ge(elapsedTime, FRAME_INTERVAL)
        THEN LET s1 == Elapse(endDraw(s), blit)
                 s2 == updateTime(s1)
                 s3 == Elapse([s2 EXCEPT !.lastDrawTime = currentTime], gap)
                 spent == U32Sub(s3.now, currentTime)
                 s3a == [s3 EXCEPT !.slack = [NoSlack EXCEPT !.spent = spent]]
                 s4 == delay(s3a, FRAME_INTERVAL, over)
                 s5 == InputManagerUpdate(s4)
             IN  [beginDraw(s5) EXCEPT !.ret = TRUE]
        ELSE [s EXCEPT !.ret = TRUE]

\* System::update.  blit is the time pushSprite takes, gap the time between the
\* clock read of updateTime and the one of `remaining`, over the oversleep of the
\* delay.  The result is the record after the call, ret the value returned.
update(s, blit, gap, over) ==
    LET currentTime == s.now
        elapsedTime == U32Sub(currentTime, s.lastDrawTime)
    IN  IF U32Ge(elapsedTime, FRAME_INTERVAL)
        THEN LET s1 == Elapse(endDraw(s), blit)
                 s2 == updateTime(s1)
                 s3 == Elapse([s2 EXCEPT !.lastDrawTime = currentTime], gap)
                 spent == U32Sub(s3.now, currentTime)
                 remaining == ToInt32(U32Sub(U32(FRAME_INTERVAL), spent))
                 s3a == [s3 EXCEPT !.slack = [NoSlack EXCEPT !.spent = spent]]
                 s4 == IF remaining > 0 THEN delay(s3a, remaining, over) ELSE s3a
                 s5 == InputManagerUpdate(s4)
             IN  [beginDraw(s5) EXCEPT !.ret = TRUE]
        ELSE [s EXCEPT !.ret = TRUE]

----------------------------------------------------------------------------
(* Initial state: the singletons as constructed, System::init not yet run *)

ClockStarts == {U32(100), [hi |-> Limb - 1, lo |-> Limb - 20]}

BlitTimes == {0, 3, FRAME_INTERVAL + 1}

Steps == {5, FRAME_INTERVAL}

\* An answer the caller holds: who was asked what, and the boolean (b) or the
\* position (p) returned.
Answer(who, what, b, p) == [q |-> <<who, what>>, b |-> b, p |-> p]

NoObs == Answer("none", "none", FALSE, <<0, 0>>)

NoCall == [f |-> "none"]

\* A call of a pure function about to be made with the arguments args, and
\* the same call once it has returned out.
Request(f, args) == [f |-> f, args |-> args, done |-> FALSE, out |-> FALSE]
Return(request, out) == [request EXCEPT !.done = TRUE, !.out = out]

\* The points, rectangles and circles the contains() functions are applied to.
GridPoints == (-GridMax .. GridMax) \X (-GridMax .. GridMax)

Rects ==
    {[kind |-> "Rect", x |-> x, y |-> y, width |-> w, height |-> h] :
        x \in {-1, 1}, y \in {-1, 1}, w \in -1 .. MaxSide, h \in -1 .. MaxSide}

Circles ==
    {[kind |-> "Circle", x |-> c[1], y |-> c[2], r |-> r] :
        c \in {<<0, 0>>, <<1, -1>>}, r \in -1 .. MaxRadius}

\* Every triangle with vertices in (0 .. MaxVertex) x (0 .. MaxVertex), the
\* degenerate ones included, and
\* the points of that grid and of a margin of one around it.
Vertices == (0 .. MaxVertex) \X (0 .. MaxVertex)

Triangles ==
    {[kind |-> "Triangle", x1 |-> a[1], y1 |-> a[2], x2 |-> b[1], y2 |-> b[2],
      x3 |-> c[1], y3 |-> c[2]] : a \in Vertices, b \in Vertices, c \in Vertices}

TrianglePoints == (-1 .. MaxVertex + 1) \X (-1 .. MaxVertex + 1)

\* The background colours the program chooses among (Palette.h).
Colours == {"Black", "White"}

Off == [en |-> FALSE, x |-> 0, y |-> 0, pressed |-> FALSE]

\* The fields after construction, before any call.
InitFields ==
    /\ now \in ClockStarts
    /\ pc = "boot"
    /\ running = TRUE
    /\ calls = 0
    /\ lastDrawTime = U32(0)
    /\ m_deltaTime = U32(0)
    /\ m_averageFrameTime = <<>>
    /\ m_frameCount = 0
    /\ m_previousTime = U32(0)
    /\ canvas = "none"
    /\ display = "none"
    /\ blits = 0
    /\ clears = 0
    /\ refreshes = 0
    /\ effects = <<>>
    /\ hw \in Samples
    /\ hwEnabled \in BOOLEAN
    /\ cur = InitialTouchState
    /\ prev = InitialTouchState
    /\ obs = NoObs
    /\ hist = <<>>
    /\ callLog = <<>>
    /\ m_backgroundColor = "Black"
    /\ canvasFill = "none"
    /\ m_currentAngles = ZeroAngles
    /\ image = NewImage
    /\ btnHw = FALSE
    /\ btn = ReleasedButton
    /\ slack = NoSlack
    /\ checked = FALSE
    /\ value = Rat(1, 1)
    /\ edges = <<>>
    /\ uptime = 0
    /\ drawUptime = 0

Init == InitFields /\ call = NoCall

----------------------------------------------------------------------------
(* Actions *)

\* The setup code that runs before System::init is called takes d ms.
BootDelay(d) ==
    /\ pc = "boot"
    /\ uptime = 0
    /\ now' = U32Add(now, d)
    /\ uptime' = uptime + d
    /\ UNCHANGED <<pc, running, calls, lastDrawTime, m_deltaTime, m_averageFrameTime,
                   m_frameCount, m_previousTime, canvas, display, blits, clears,
                   refreshes, effects, hw, hwEnabled, cur, prev, obs, hist,
                   callLog, m_backgroundColor, canvasFill, call, m_currentAngles,
                   image, btnHw, btn, slack, checked, value, edges, drawUptime>>

\* System::init that also starts the frame clock of updateTime.
SystemInit_StartsFrameClock ==
    /\ pc = "boot"
    /\ pc' = "loop"
    /\ canvas' = "created"
    /\ canvasFill' = "raw"
    /\ lastDrawTime' = now
    /\ m_previousTime' = now
    /\ drawUptime' = uptime
    /\ UNCHANGED <<now, running, calls, m_deltaTime, m_averageFrameTime, m_frameCount,
                   display, blits, clears, refreshes, effects, hw,
                   hwEnabled, cur, prev, obs, hist,
                   callLog,
                   m_backgroundColor,
                   call,
                   m_currentAngles,
                   image,
                   btnHw,
                   btn,
                   slack,
                   checked,
                   value,
                   edges,
                   uptime>>

\* System::init: M5.begin, canvas.createSprite, lastDrawTime = millis()
SystemInit ==
    /\ pc = "boot"
    /\ pc' = "loop"
    /\ canvas' = "created"
    /\ canvasFill' = "raw"
    /\ lastDrawTime' = now
    /\ drawUptime' = uptime
    /\ UNCHANGED <<now, running, calls, m_deltaTime, m_averageFrameTime, m_frameCount,
                   m_previousTime, display, blits, clears, refreshes, effects, hw,
                   hwEnabled, cur, prev, obs, hist,
                   callLog,
                   m_backgroundColor,
                   call,
                   m_currentAngles,
                   image,
                   btnHw,
                   btn,
                   slack,
                   checked,
                   value,
                   edges,
                   uptime>>

\* The clock advances while the caller's loop body runs.
Advance(d) ==
    /\ pc = "loop"
    /\ ~U32Ge(U32Sub(now, lastDrawTime), MaxIdle)
    /\ now' = U32Add(now, d)
    /\ uptime' = uptime + d
    /\ UNCHANGED <<pc, running, calls, lastDrawTime, m_deltaTime, m_averageFrameTime,
                   m_frameCount, m_previousTime, canvas, display, blits, clears,
                   refreshes, effects, hw, hwEnabled, cur, prev, obs, hist,
                   callLog,
                   m_backgroundColor,
                   canvasFill,
                   call,
                   m_currentAngles,
                   image,
                   btnHw,
                   btn,
                   slack,
                   checked,
                   value,
                   edges,
                   drawUptime>>

\* One call of System::update(): the program's fields take the values the call
\* leaves (callLog is left to the two actions below).
UpdateCall(blit, gap, over) ==
    /\ pc = "loop"
    /\ running
    /\ Commit(update([Prog EXCEPT !.effects = <<>>], blit, gap, over))
    /\ obs' = IF refreshes' = refreshes THEN obs ELSE NoObs
    /\ drawUptime' = IF lastDrawTime' = lastDrawTime THEN drawUptime ELSE uptime
    /\ calls' = calls + 1
    /\ UNCHANGED <<pc, hw, hwEnabled, hist, call, m_currentAngles, image,
                   btnHw,
                   checked,
                   value,
                   edges>>

\* System::Update(), one call of the loop `while (System::Update()) { ... }`.
Update(blit, gap, over) ==
    /\ calls < MaxCalls
    /\ UpdateCall(blit, gap, over)
    /\ UNCHANGED <<callLog, slack>>

\* The same call in a logged run: callLog records the clock the call read on
\* entry and whether the call blitted, slack the slack step of the call.
LoggedUpdate(blit, gap, over) ==
    /\ Len(callLog) < MaxLogged
    /\ m_frameCount < MaxFrames
    /\ UpdateCall(blit, gap, over)
    /\ callLog' = Append(callLog, [at |-> now, committed |-> blits' # blits])
    /\ slack' = update([Prog EXCEPT !.effects = <<>>], blit, gap, over).slack

\* A draw call of the loop body (Shape::draw, Font::draw, a widget).
Draw ==
    /\ pc = "loop"
    /\ canvas' = "drawn"
    /\ UNCHANGED <<now, pc, running, calls, lastDrawTime, m_deltaTime,
                   m_averageFrameTime, m_frameCount, m_previousTime, display, blits,
                   clears, refreshes, effects, hw, hwEnabled, cur, prev, obs, hist,
                   callLog,
                   m_backgroundColor,
                   canvasFill,
                   call,
                   m_currentAngles,
                   image,
                   btnHw,
                   btn,
                   slack,
                   checked,
                   value,
                   edges,
                   uptime,
                   drawUptime>>

\* System::SetBackgroundColor, called before the loop starts as Main does.
SetBackgroundColor(color) ==
    /\ pc = "loop"
    /\ calls = 0
    /\ color # m_backgroundColor
    /\ m_backgroundColor' = color
    /\ UNCHANGED <<now, pc, running, calls, lastDrawTime, m_deltaTime,
                   m_averageFrameTime, m_frameCount, m_previousTime, canvas, display,
                   blits, clears, refreshes, effects, hw, hwEnabled, cur, prev, obs,
                   hist, callLog, canvasFill,
                   call,
                   m_currentAngles,
                   image,
                   btnHw,
                   btn,
                   slack,
                   checked,
                   value,
                   edges,
                   uptime,
                   drawUptime>>

\* The finger moves, touches or lifts: the hardware state changes.
HwTouchChange(t) ==
    /\ t # hw
    /\ hw' = t
    /\ UNCHANGED <<now, pc, running, calls, lastDrawTime, m_deltaTime,
                   m_averageFrameTime, m_frameCount, m_previousTime, canvas, display,
                   blits, clears, refreshes, effects, hwEnabled, cur, prev, obs, hist,
                   callLog,
                   m_backgroundColor,
                   canvasFill,
                   call,
                   m_currentAngles,
                   image,
                   btnHw,
                   btn,
                   slack,
                   checked,
                   value,
                   edges,
                   uptime,
                   drawUptime>>

\* Button A is pushed or let go.
HwButtonChange ==
    /\ btnHw' = ~btnHw
    /\ UNCHANGED <<now, pc, running, calls, lastDrawTime, m_deltaTime,
                   m_averageFrameTime, m_frameCount, m_previousTime, canvas, display,
                   blits, clears, refreshes, effects, hw, hwEnabled, cur, prev, obs,
                   hist, callLog, m_backgroundColor, canvasFill, call,
                   m_currentAngles, image, btn,
                   slack,
                   checked,
                   value,
                   edges,
                   uptime,
                   drawUptime>>

\* The caller asks ButtonA.down(), up(), pressed() or released().
ButtonQuery(m) ==
    /\ obs' = Answer("ButtonA", m, ButtonQueryValue(m), <<0, 0>>)
    /\ UNCHANGED <<now, pc, running, calls, lastDrawTime, m_deltaTime,
                   m_averageFrameTime, m_frameCount, m_previousTime, canvas, display,
                   blits, clears, refreshes, effects, hw, hwEnabled, cur, prev,
                   hist, callLog, m_backgroundColor, canvasFill, call,
                   m_currentAngles, image, btnHw, btn,
                   slack,
                   checked,
                   value,
                   edges,
                   uptime,
                   drawUptime>>

\* The touch controller is switched off or on (M5.Touch.end / begin).
HwSetEnabled ==
    /\ hwEnabled' = ~hwEnabled
    /\ UNCHANGED <<now, pc, running, calls, lastDrawTime, m_deltaTime,
                   m_averageFrameTime, m_frameCount, m_previousTime, canvas, display,
                   blits, clears, refreshes, effects, hw, cur, prev, obs, hist,
                   callLog,
                   m_backgroundColor,
                   canvasFill,
                   call,
                   m_currentAngles,
                   image,
                   btnHw,
                   btn,
                   slack,
                   checked,
                   value,
                   edges,
                   uptime,
                   drawUptime>>

\* The caller asks Touch.pos(), pressed(), down() or up().
TouchQuery(q) ==
    /\ obs' = IF q = "pos"
              THEN Answer("Touch", q, FALSE, TouchQueryValue(q))
              ELSE Answer("Touch", q, TouchQueryValue(q), <<0, 0>>)
    /\ UNCHANGED <<now, pc, running, calls, lastDrawTime, m_deltaTime,
                   m_averageFrameTime, m_frameCount, m_previousTime, canvas, display,
                   blits, clears, refreshes, effects, hw, hwEnabled, cur, prev, hist,
                   callLog,
                   m_backgroundColor,
                   canvasFill,
                   call,
                   m_currentAngles,
                   image,
                   btnHw,
                   btn,
                   slack,
                   checked,
                   value,
                   edges,
                   uptime,
                   drawUptime>>

\* The caller asks a shape's touchOver(), touched(), released() or pressed().
ShapeQuery(shape, m) ==
    /\ obs' = Answer(shape.kind, m, ShapeQueryValue(shape, m), <<0, 0>>)
    /\ UNCHANGED <<now, pc, running, calls, lastDrawTime, m_deltaTime,
                   m_averageFrameTime, m_frameCount, m_previousTime, canvas, display,
                   blits, clears, refreshes, effects, hw, hwEnabled, cur, prev, hist,
                   callLog,
                   m_backgroundColor,
                   canvasFill,
                   call,
                   m_currentAngles,
                   image,
                   btnHw,
                   btn,
                   slack,
                   checked,
                   value,
                   edges,
                   uptime,
                   drawUptime>>

\* The caller asks shape.contains(point).
ContainsCall ==
    /\ call.f = "contains"
    /\ ~call.done
    /\ call' = Return(call, Contains(call.args.shape, call.args.point))
    /\ UNCHANGED <<now, pc, running, calls, lastDrawTime, m_deltaTime,
                   m_averageFrameTime, m_frameCount, m_previousTime, canvas, display,
                   blits, clears, refreshes, effects, hw, hwEnabled, cur, prev, obs,
                   hist, callLog, m_backgroundColor, canvasFill,
                   m_currentAngles,
                   image,
                   btnHw,
                   btn,
                   slack,
                   checked,
                   value,
                   edges,
                   uptime,
                   drawUptime>>

\* The caller evaluates Color(v).toRGB565().
ColorCall ==
    /\ call.f = "Color"
    /\ ~call.done
    /\ LET c == ColorFromRGB565(call.args.rgb565)
       IN  call' = Return(call, [color |-> c, rgb565 |-> toRGB565(c)])
    /\ UNCHANGED <<now, pc, running, calls, lastDrawTime, m_deltaTime,
                   m_averageFrameTime, m_frameCount, m_previousTime, canvas, display,
                   blits, clears, refreshes, effects, hw, hwEnabled, cur, prev, obs,
                   hist, callLog, m_backgroundColor, canvasFill,
                   m_currentAngles,
                   image,
                   btnHw,
                   btn,
                   slack,
                   checked,
                   value,
                   edges,
                   uptime,
                   drawUptime>>

\* IMU.updateAttitude(deltaTime, alpha, gyroScale) while the sensors read accel
\* and gyro; call keeps the arguments, the readings and the angles before.
UpdateAttitude(accel, gyro, deltaTime, alpha, gyroScale) ==
    /\ call.f \in {"none", "updateAttitude"}
    /\ (IF call.f = "none" THEN 0 ELSE call.out.nth) < MaxImuCalls
    /\ m_currentAngles' =
           updateAttitude(m_currentAngles, accel, gyro, deltaTime, alpha, gyroScale)
    /\ call' = [f |-> "updateAttitude",
                args |-> [accel |-> accel, gyro |-> gyro, deltaTime |-> deltaTime,
                          alpha |-> alpha, gyroScale |-> gyroScale],
                done |-> TRUE,
                out |-> [before |-> m_currentAngles,
                         nth |-> IF call.f = "none" THEN 1 ELSE call.out.nth + 1]]
    /\ UNCHANGED <<now, pc, running, calls, lastDrawTime, m_deltaTime,
                   m_averageFrameTime, m_frameCount, m_previousTime, canvas, display,
                   blits, clears, refreshes, effects, hw, hwEnabled, cur, prev, obs,
                   hist, callLog, m_backgroundColor, canvasFill,
                   image,
                   btnHw,
                   btn,
                   slack,
                   checked,
                   value,
                   edges,
                   uptime,
                   drawUptime>>

\* image.loadBase64(data); call keeps what the data held, the value returned
\* and the object before the call.
LoadBase64(in) ==
    /\ LET r == loadBase64(image, in)
       IN  /\ image' = r.img
           /\ call' = [f |-> "loadBase64", args |-> in, done |-> TRUE,
                       out |-> [ret |-> r.ret, before |-> image]]
    /\ UNCHANGED <<now, pc, running, calls, lastDrawTime, m_deltaTime,
                   m_averageFrameTime, m_frameCount, m_previousTime, canvas, display,
                   blits, clears, refreshes, effects, hw, hwEnabled, cur, prev, obs,
                   hist, callLog, m_backgroundColor, canvasFill, m_currentAngles,
                   btnHw,
                   btn,
                   slack,
                   checked,
                   value,
                   edges,
                   uptime,
                   drawUptime>>

\* image.create(width, height)
Create(width, height, allocOk) ==
    /\ LET r == create(image, width, height, allocOk)
       IN  /\ image' = r.img
           /\ call' = [f |-> "create", args |-> <<width, height>>, done |-> TRUE,
                       out |-> [ret |-> r.ret, before |-> image]]
    /\ UNCHANGED <<now, pc, running, calls, lastDrawTime, m_deltaTime,
                   m_averageFrameTime, m_frameCount, m_previousTime, canvas, display,
                   blits, clears, refreshes, effects, hw, hwEnabled, cur, prev, obs,
                   hist, callLog, m_backgroundColor, canvasFill, m_currentAngles,
                   btnHw,
                   btn,
                   slack,
                   checked,
                   value,
                   edges,
                   uptime,
                   drawUptime>>

\* The loop body calls SimpleGUI::Button(label, pos, width, enabled): the
\* button is drawn on the canvas and the call returns; call keeps the
\* arguments, the value returned and the touch snapshot the call took place in.
ButtonCall(pos, width, enabled) ==
    /\ pc = "loop"
    /\ canvas' = "drawn"
    /\ call' = [f |-> "Button",
                args |-> [pos |-> pos, width |-> width, enabled |-> enabled],
                done |-> TRUE,
                out |-> [ret |-> Button(pos, width, enabled), cur |-> cur,
                         prev |-> prev]]
    /\ UNCHANGED <<now, pc, running, calls, lastDrawTime, m_deltaTime,
                   m_averageFrameTime, m_frameCount, m_previousTime, display,
                   blits, clears, refreshes, effects, hw, hwEnabled, cur, prev, obs,
                   hist, callLog, m_backgroundColor, canvasFill, m_currentAngles,
                   image,
                   btnHw,
                   btn,
                   slack,
                   checked,
                   value,
                   edges,
                   uptime,
                   drawUptime>>

\* A direct call of InputManager::update(), outside the frame loop; hist records
\* what the call read from the hardware.
Refresh ==
    /\ Len(hist) < MaxRefresh
    /\ Commit(InputManagerUpdate([Prog EXCEPT !.effects = <<>>]))
    /\ hist' = Append(hist, IF hwEnabled
                            THEN [en |-> TRUE, x |-> hw.x, y |-> hw.y,
                                  pressed |-> hw.pressed]
                            ELSE Off)
    /\ edges' = Append(edges, [down |-> TouchDown', up |-> TouchUp',
                                pressed |-> TouchPressed'])
    /\ obs' = NoObs
    /\ UNCHANGED <<pc, calls, hw, hwEnabled, callLog, call, m_currentAngles,
                   image, btnHw, slack,
                   checked,
                   value,
                   drawUptime>>

\* The loop's System::Update() of a frame whose body calls one widget: the
\* refresh comes after the previous frame's widget call.
FrameRefresh ==
    /\ Len(hist) = 0 \/ obs # NoObs
    /\ Refresh

\* SimpleGUI::CheckBox(checked, label, pos, width, enabled), once in the frame.
CheckBoxCall(pos, width, enabled) ==
    /\ pc = "loop"
    /\ Len(hist) > 0
    /\ obs = NoObs
    /\ LET r == CheckBox(checked, pos, width, enabled)
       IN  /\ checked' = r.checked
           /\ obs' = Answer("SimpleGUI", "CheckBox", r.ret, pos)
           /\ call' = [f |-> "CheckBox",
                       args |-> [pos |-> pos, width |-> width, enabled |-> enabled],
                       done |-> TRUE,
                       out |-> [ret |-> r.ret, cur |-> cur, prev |-> prev]]
    /\ canvas' = "drawn"
    /\ UNCHANGED <<now, running, calls, lastDrawTime, m_deltaTime,
                   m_averageFrameTime, m_frameCount, m_previousTime, display,
                   blits, clears, refreshes, effects, hw, hwEnabled, cur, prev,
                   hist, callLog, m_backgroundColor, canvasFill, m_currentAngles,
                   image, btnHw, btn, slack, value, pc,
                   edges,
                   uptime,
                   drawUptime>>

\* SimpleGUI::Slider(value, pos, min, max, width, enabled), once in the frame.
SliderCall(pos, range, width, enabled) ==
    /\ pc = "loop"
    /\ Len(hist) > 0
    /\ obs = NoObs
    /\ LET r == Slider(value, pos, range[1], range[2], width, enabled)
       IN  /\ value' = r.value
           /\ obs' = Answer("SimpleGUI", "Slider", r.ret, pos)
           /\ call' = [f |-> "Slider",
                       args |-> [pos |-> pos, width |-> width, enabled |-> enabled,
                                 min |-> range[1], max |-> range[2]],
                       done |-> TRUE,
                       out |-> [ret |-> r.ret, cur |-> cur, prev |-> prev]]
    /\ canvas' = "drawn"
    /\ UNCHANGED <<now, running, calls, lastDrawTime, m_deltaTime,
                   m_averageFrameTime, m_frameCount, m_previousTime, display,
                   blits, clears, refreshes, effects, hw, hwEnabled, cur, prev,
                   hist, callLog, m_backgroundColor, canvasFill, m_currentAngles,
                   image, btnHw, btn, slack, checked, pc,
                   edges,
                   uptime,
                   drawUptime>>

----------------------------------------------------------------------------
(* Specifications *)

\* Spec, the frame loop's timing: init, then update() calls while the clock runs,
\* with every duration inside update() varied.  The finger rests on the panel.
InitFrame == Init /\ hwEnabled /\ hw = TouchState(5, 5, TRUE)

Next ==
    \/ SystemInit
    \/ \E d \in Steps : Advance(d)
    \/ \E blit \in BlitTimes, gap \in 0 .. MaxGap, over \in 0 .. MaxOver :
           Update(blit, gap, over)

Spec == InitFrame /\ [][Next]_vars

\* SpecLoop, the frame loop's body: update() calls paced in steps of 5 ms,
\* interleaved with the body's draw calls and touch queries, while the finger
\* moves and the touch controller goes off and on.
NextLoop ==
    \/ SystemInit
    \/ Advance(5)
    \/ Update(0, 0, 0)
    \/ Draw
    \/ \E t \in Samples : HwTouchChange(t)
    \/ HwSetEnabled
    \/ \E q \in TouchQueries : TouchQuery(q)

SpecLoop == Init /\ [][NextLoop]_vars

\* SpecInput, the input snapshot alone: direct refreshes fed by arbitrary
\* hardware samples, and the queries of the touch singleton and of the shapes.
NextInput ==
    \/ Refresh
    \/ \E t \in Samples : HwTouchChange(t)
    \/ HwSetEnabled
    \/ \E q \in TouchQueries : TouchQuery(q)
    \/ \E shape \in Shapes, m \in ShapeMethods : ShapeQuery(shape, m)

InitInput == Init /\ now = U32(100)

SpecInput == InitInput /\ [][NextInput]_vars

\* SpecPace, the pacing of a logged run: init, then update() calls 5 ms apart
\* or closer, each one logged with its entry clock.
NextPace ==
    \/ SystemInit
    \/ Advance(5)
    \/ \E blit \in BlitTimes, gap \in 0 .. MaxGap, over \in 0 .. MaxOver :
           LoggedUpdate(blit, gap, over)

SpecPace == InitFrame /\ [][NextPace]_vars

\* The setup times the model tries: with the clock 20 ms before its wrap at
\* the start of the run, System::init then runs 10 ms before the wrap.
BootTimes == {10}

\* SpecWrap, a logged run around the wrap of the clock: System::init called at
\* once or after the setup code has run, then update() calls 5 ms apart or
\* closer.
NextWrap ==
    \/ \E d \in BootTimes : BootDelay(d)
    \/ SystemInit
    \/ Advance(5)
    \/ \E blit \in BlitTimes, over \in 0 .. MaxOver : LoggedUpdate(blit, 0, over)

SpecWrap == InitFrame /\ [][NextWrap]_vars

\* SpecCanvas, the loop of Main: init, the background colour chosen before the
\* loop, then update() calls 5 ms apart or closer with the body's draw calls
\* in between.
NextCanvas ==
    \/ SystemInit
    \/ \E color \in Colours : SetBackgroundColor(color)
    \/ Advance(5)
    \/ \E blit \in BlitTimes : Update(blit, 0, 0)
    \/ Draw

SpecCanvas == InitFrame /\ [][NextCanvas]_vars

\* SpecShapes, the shapes' contains() as functions: every rectangle and circle
\* of the bounded sets applied to every point of the grid.
InitCalls == InitFields /\ hwEnabled /\ hw = TouchState(5, 5, TRUE) /\ now = U32(100)

InitShapes ==
    /\ InitCalls
    /\ call \in {Request("contains", [shape |-> shape, point |-> point]) :
                     shape \in Rects \cup Circles, point \in GridPoints}

NextShapes == ContainsCall

SpecShapes == InitShapes /\ [][NextShapes]_vars

\* Triangle::contains as a pure function of the triangle and the point.
InitTriangles ==
    /\ InitCalls
    /\ call \in {Request("contains", [shape |-> shape, point |-> point]) :
                     shape \in Triangles, point \in TrianglePoints}

NextTriangles == ContainsCall

SpecTriangles == InitTriangles /\ [][NextTriangles]_vars

\* SpecColor, the RGB565 round trip: Color(v).toRGB565() for every 16-bit v.
InitColor ==
    /\ InitCalls
    /\ call \in {Request("Color", [rgb565 |-> v]) : v \in RGB565Values}

NextColor == ColorCall

SpecColor == InitColor /\ [][NextColor]_vars

\* SpecImu, the attitude filter: updateAttitude calls with every combination
\* of readings and arguments of the model.
InitImu == InitCalls /\ call = NoCall

NextImu ==
    \E accel \in AccelSamples, gyro \in GyroSamples, deltaTime \in DeltaTimes,
       alpha \in Alphas, gyroScale \in GyroScales :
        UpdateAttitude(accel, gyro, deltaTime, alpha, gyroScale)

SpecImu == InitImu /\ [][NextImu]_vars

\* SpecImage, one Image object: loadBase64 with every kind of data, and
\* create, in any order.
InitImage == InitCalls /\ call = NoCall

NextImage ==
    \/ \E in \in Base64Inputs : LoadBase64(in)
    \/ \E allocOk \in BOOLEAN : Create(5, 5, allocOk)

SpecImage == InitImage /\ [][NextImage]_vars

\* SpecGui, the widgets: input refreshes fed by a moving finger, and Button
\* calls with every combination of the model's arguments.
InitGui == InitInput /\ hwEnabled

NextGui ==
    \/ SystemInit
    \/ Refresh
    \/ \E t \in Samples : HwTouchChange(t)
    \/ \E pos \in ButtonPositions, width \in ButtonWidths, enabled \in BOOLEAN :
           ButtonCall(pos, width, enabled)

SpecGui == InitGui /\ [][NextGui]_vars

\* A loop whose body calls one check box per frame.
NextCheckBox ==
    \/ SystemInit
    \/ FrameRefresh
    \/ \E t \in Samples : HwTouchChange(t)
    \/ \E pos \in CheckBoxPositions, width \in CheckBoxWidths, enabled \in BOOLEAN :
           CheckBoxCall(pos, width, enabled)

SpecCheckBox == InitGui /\ [][NextCheckBox]_vars

\* A loop whose body calls one slider per frame.
NextSlider ==
    \/ SystemInit
    \/ FrameRefresh
    \/ \E t \in Samples : HwTouchChange(t)
    \/ \E slider \in Sliders, range \in SliderRanges, enabled \in BOOLEAN :
           SliderCall(slider[1], range, slider[2], enabled)

SpecSlider == InitGui /\ [][NextSlider]_vars

\* SpecButtons, the two input sources side by side: refreshes while button A
\* and the finger go down and up, and the queries of both.
InitButtons == InitInput /\ hwEnabled

NextButtons ==
    \/ Refresh
    \/ HwButtonChange
    \/ \E t \in Samples : HwTouchChange(t)
    \/ \E m \in ButtonMethods : ButtonQuery(m)
    \/ \E q \in TouchQueries : TouchQuery(q)

SpecButtons == InitButtons /\ [][NextButtons]_vars

----------------------------------------------------------------------------
(* Properties *)

\* elapsed >= FRAME_INTERVAL at the entry of an update() call made now.
Due == U32Ge(U32Sub(now, lastDrawTime), FRAME_INTERVAL)

\* A step that is one call of System::update().
UpdateStep == calls' # calls

\* A step that is one call of InputManager::update().
RefreshStep == refreshes' # refreshes

Occurrences(seq, e) == Cardinality({i \in DOMAIN seq : seq[i] = e})

Front(seq) == SubSeq(seq, 1, Len(seq) - 1)

CommittedWithSleep == <<"blit", "time", "sleep", "input", "clear">>
CommittedNoSleep == <<"blit", "time", "input", "clear">>

\* C1: every update() call entered with elapsed >= FRAME_INTERVAL performs, in
\* this order and each once, the blit, the timing update, the slack sleep (or
\* no sleep), the input refresh and the canvas clear.
C1_CommittedOrder ==
    [][(UpdateStep /\ Due) =>
          /\ effects' \in {CommittedWithSleep, CommittedNoSleep}
          /\ blits' = blits + 1
          /\ m_frameCount' = m_frameCount + 1
          /\ refreshes' = refreshes + 1
          /\ clears' = clears + 1
          /\ display' = canvas
          /\ canvas' = "cleared"]_vars

C1_Witness ==
    /\ calls > 0
    /\ effects = CommittedWithSleep
    /\ blits = 1 /\ refreshes = 1 /\ clears = 1 /\ m_frameCount = 1

\* C2: an update() call entered with elapsed < FRAME_INTERVAL changes nothing
\* (no blit, clear, refresh or sleep; the clock fields, the statistics and both
\* touch generations keep their values), and every call returns true.
C2_NoOpWhenEarly ==
    [][UpdateStep =>
          /\ running' = TRUE
          /\ ~Due =>
                /\ effects' = <<>>
                /\ UNCHANGED <<now, lastDrawTime, m_previousTime, m_deltaTime,
                               m_averageFrameTime, m_frameCount, cur, prev, blits,
                               clears, refreshes, canvas, display>>]_vars

C2_Witness ==
    /\ calls = 2
    /\ effects = <<>>
    /\ m_frameCount = 0
    /\ ~Due
    /\ running

\* C3: the input refresh runs exactly once, before the one canvas clear, in every
\* update() call entered with elapsed >= FRAME_INTERVAL, never in a call entered
\* earlier and never outside update(): at most one refresh lies between two
\* consecutive canvas clears.
C3_RefreshOncePerClear ==
    /\ [](refreshes = clears)
    /\ [][/\ (UpdateStep /\ Due) =>
                /\ refreshes' = refreshes + 1
                /\ clears' = clears + 1
                /\ Occurrences(effects', "input") = 1
                /\ Occurrences(effects', "clear") = 1
                /\ effects'[Len(effects')] = "clear"
                /\ effects'[Len(effects') - 1] = "input"
          /\ (UpdateStep /\ ~Due) =>
                /\ refreshes' = refreshes
                /\ clears' = clears
                /\ Occurrences(effects', "input") = 0
          /\ ~UpdateStep => (refreshes' = refreshes /\ clears' = clears)]_vars

C3_Witness ==
    /\ refreshes = 2
    /\ clears = 2
    /\ calls = 3

\* The pressed level the snapshot holds after the refreshes of history h, worked
\* out from the hardware levels alone: the level of the last sample read while
\* the controller was on, false if there is none.
RECURSIVE LatchedLevel(_)
LatchedLevel(h) ==
    IF h = <<>> THEN FALSE
    ELSE IF h[Len(h)].en THEN h[Len(h)].pressed
    ELSE LatchedLevel(Front(h))

\* The same for the generation before the last refresh.
EarlierLevel(h) == IF h = <<>> THEN FALSE ELSE LatchedLevel(Front(h))

\* C4: after any sequence of refreshes fed any hardware levels, down() is true
\* exactly when the latched level is pressed and the one before it is not, up()
\* exactly in the opposite case; both are false when the two levels agree.
C4_EdgesFromLevels ==
    /\ cur.pressed = LatchedLevel(hist)
    /\ prev.pressed = EarlierLevel(hist)
    /\ TouchDown = (LatchedLevel(hist) /\ ~EarlierLevel(hist))
    /\ TouchUp = (~LatchedLevel(hist) /\ EarlierLevel(hist))
    /\ (prev.pressed = cur.pressed) => (~TouchDown /\ ~TouchUp)
    /\ (~prev.pressed /\ cur.pressed) => (TouchDown /\ ~TouchUp)
    /\ (prev.pressed /\ ~cur.pressed) => (~TouchDown /\ TouchUp)

C4_Witness ==
    /\ Len(hist) = 3
    /\ ~hist[1].pressed /\ hist[2].pressed /\ ~hist[3].pressed
    /\ hist[2].en /\ hist[3].en
    /\ TouchUp
    /\ ~TouchDown

\* C5: a refresh copies current into previous before it overwrites current: after
\* it previous is what current was before it and, with the controller on, current
\* is the hardware sample of that moment.
C5_PreviousThenCurrent ==
    [][RefreshStep =>
          /\ refreshes' = refreshes + 1
          /\ prev' = cur
          /\ hwEnabled => cur' = TouchState(hw.x, hw.y, hw.pressed)]_vars

C5_Witness ==
    /\ Len(hist) = 2
    /\ hist[1].en /\ hist[2].en
    /\ prev = TouchState(hist[1].x, hist[1].y, hist[1].pressed)
    /\ cur = TouchState(hist[2].x, hist[2].y, hist[2].pressed)
    /\ prev.pressed /\ ~cur.pressed
    /\ <<prev.x, prev.y>> # <<cur.x, cur.y>>

\* C6: between two refreshes the snapshot is constant: the value a query returned
\* is the value it returns now, whatever the hardware did since; a query changes
\* nothing but the caller's copy of the answer; and pos(), pressed(), down() and
\* up() change only in a committed update() call, which refreshes once.
C6_SnapshotConstant ==
    /\ [](obs.q[1] = "Touch" =>
             IF obs.q[2] = "pos"
             THEN obs.p = TouchQueryValue("pos")
             ELSE obs.b = TouchQueryValue(obs.q[2]))
    /\ [][(obs' # obs /\ obs'.q[1] = "Touch") =>
             UNCHANGED <<now, pc, running, calls, lastDrawTime, m_deltaTime,
                         m_averageFrameTime, m_frameCount, m_previousTime, canvas,
                         display, blits, clears, refreshes, effects, hw, hwEnabled,
                         cur, prev, hist>>]_vars
    /\ [][(\E q \in TouchQueries : TouchQueryValue(q)' # TouchQueryValue(q)) =>
             (UpdateStep /\ Due /\ refreshes' = refreshes + 1)]_vars

C6_Witness ==
    /\ obs = Answer("Touch", "pressed", TRUE, <<0, 0>>)
    /\ hwEnabled
    /\ ~hw.pressed
    /\ <<hw.x, hw.y>> # <<cur.x, cur.y>>
    /\ refreshes = 2

\* The last refresh found the touch controller off, and it has been off since.
DisabledAtLastRefresh == hist # <<>> /\ ~hist[Len(hist)].en /\ ~hwEnabled

\* C7 as stated: once a refresh has found the controller off, pressed() is false
\* for as long as the controller stays off, whatever level was latched before.
C7_PressedFalseWhenDisabled == DisabledAtLastRefresh => ~TouchPressed

\* C7, amended: a refresh that finds the controller off leaves current as it was,
\* so pressed() keeps the level latched before (false only if that level was
\* false) for as long as the controller stays off; previous becomes that same
\* value, so down() and up(), computed from the latched pair, are both false.
C7_LatchedWhenDisabled ==
    /\ [][(RefreshStep /\ ~hwEnabled) =>
             /\ cur' = cur
             /\ prev' = cur
             /\ TouchPressed' = TouchPressed
             /\ TouchDown' = FALSE
             /\ TouchUp' = FALSE]_vars
    /\ [][(~hwEnabled /\ ~hwEnabled') => TouchPressed' = TouchPressed]_vars
    /\ [](DisabledAtLastRefresh =>
             /\ TouchPressed = LatchedLevel(hist)
             /\ TouchDown = (cur.pressed /\ ~prev.pressed)
             /\ TouchUp = (~cur.pressed /\ prev.pressed))

C7_Witness ==
    /\ DisabledAtLastRefresh
    /\ Len(hist) = 3
    /\ hist[1].en /\ hist[1].pressed
    /\ ~hist[2].en
    /\ TouchPressed
    /\ prev = cur

\* C8: for the circle, the rectangle and the triangle alike, touchOver() is
\* contains(Touch.pos()) whatever the pressed level, touched() is that and
\* Touch.down(), released() is that and Touch.up(), pressed() is that and
\* Touch.pressed(); the answers a caller got stay true of the snapshot, and
\* asking changes neither snapshot nor anything else.
ShapeOf(kind) == CHOOSE shape \in Shapes : shape.kind = kind

ExpectedOfShape(shape, m) ==
    CASE m = "touchOver" -> Contains(shape, TouchPos)
      [] m = "touched" -> TouchDown /\ Contains(shape, TouchPos)
      [] m = "released" -> TouchUp /\ Contains(shape, TouchPos)
      [] m = "pressed" -> TouchPressed /\ Contains(shape, TouchPos)

IsShapeQuery(o) == o.q[1] \in {shape.kind : shape \in Shapes}

C8_ShapePredicates ==
    /\ [](\A shape \in Shapes, m \in ShapeMethods :
             ShapeQueryValue(shape, m) = ExpectedOfShape(shape, m))
    /\ [](IsShapeQuery(obs) => obs.b = ExpectedOfShape(ShapeOf(obs.q[1]), obs.q[2]))
    /\ [][(obs' # obs /\ IsShapeQuery(obs')) =>
             UNCHANGED <<now, pc, running, calls, lastDrawTime, m_deltaTime,
                         m_averageFrameTime, m_frameCount, m_previousTime, canvas,
                         display, blits, clears, refreshes, effects, hw, hwEnabled,
                         cur, prev, hist>>]_vars

C8_Witness ==
    /\ obs = Answer("Triangle", "touchOver", TRUE, <<0, 0>>)
    /\ ~TouchPressed
    /\ TouchUp
    /\ RectTouchOver(TheRect) = FALSE
    /\ CircleReleased(TheCircle) = FALSE
    /\ TriangleReleased(TheTriangle)

\* C9: at the refresh that ends a gesture, released() of a shape is decided by the
\* position sampled at that refresh alone, not by where the gesture began; and it
\* is false at every refresh of the gesture that still samples the press.
LastSample == hist[Len(hist)]

C9_ReleasedAtReleasePosition ==
    (hist # <<>> /\ LastSample.en) =>
        \A shape \in Shapes :
            /\ ShapeQueryValue(shape, "released") =
                   (/\ ~LastSample.pressed
                    /\ EarlierLevel(hist)
                    /\ Contains(shape, <<LastSample.x, LastSample.y>>))
            /\ LastSample.pressed => ~ShapeQueryValue(shape, "released")

\* Press at <<5, 5>> (inside the rectangle, outside the triangle), drag to
\* <<12, 13>> (outside the rectangle, inside the triangle), release there.
C9_Witness ==
    /\ hist = << [en |-> TRUE, x |-> 5, y |-> 5, pressed |-> TRUE],
                 [en |-> TRUE, x |-> 12, y |-> 13, pressed |-> TRUE],
                 [en |-> TRUE, x |-> 12, y |-> 13, pressed |-> FALSE] >>
    /\ RectContains(TheRect, <<5, 5>>)
    /\ ~RectReleased(TheRect)
    /\ ~TriangleContains(TheTriangle, <<5, 5>>)
    /\ TriangleReleased(TheTriangle)

\* C10: from the initial touch state, with the refreshes reading (released),
\* (pressed at 5,5), (pressed at 5,5): Circle(5,5,10).touched() is true after the
\* second refresh only, pressed() after the second and third, released() never.
PressAt55 == [en |-> TRUE, x |-> 5, y |-> 5, pressed |-> TRUE]

ScenarioPrefix(k) ==
    /\ Len(hist) = k
    /\ hist[1].en /\ ~hist[1].pressed
    /\ k >= 2 => hist[2] = PressAt55
    /\ k >= 3 => hist[3] = PressAt55

C10_Scenario ==
    /\ ScenarioPrefix(1) =>
          /\ ~CircleTouched(TheCircle)
          /\ ~CirclePressed(TheCircle)
          /\ ~CircleReleased(TheCircle)
    /\ ScenarioPrefix(2) =>
          /\ CircleTouched(TheCircle)
          /\ CirclePressed(TheCircle)
          /\ ~CircleReleased(TheCircle)
    /\ ScenarioPrefix(3) =>
          /\ ~CircleTouched(TheCircle)
          /\ CirclePressed(TheCircle)
          /\ ~CircleReleased(TheCircle)

C10_Witness ==
    /\ ScenarioPrefix(3)
    /\ TheCircle = [kind |-> "Circle", x |-> 5, y |-> 5, r |-> 10]
    /\ CirclePressed(TheCircle)
    /\ ~CircleTouched(TheCircle)

----------------------------------------------------------------------------
(* The pacing of the frame loop *)

\* The clock System::init read: in a logged run no time passes before init.
InitClocks == ClockStarts

\* The first k logged calls were made 5, 10, ..., 5k ms after init.
CalledEveryFive(t0, k) ==
    /\ Len(callLog) >= k
    /\ \A i \in 1 .. k : callLog[i].at = U32Add(t0, 5 * i)

CommittedCalls == {i \in 1 .. Len(callLog) : callLog[i].committed}

\* C11: with lastDrawTime set to the init time t0, update() calls at t0+5,
\* t0+10, t0+15 and t0+20 commit exactly one frame (one blit, one input
\* refresh), in the fourth call; the first three calls commit nothing.
C11_FourthCallCommits ==
    \A t0 \in InitClocks :
        /\ \A k \in 1 .. 3 :
               (Len(callLog) = k /\ CalledEveryFive(t0, k))
                   => (CommittedCalls = {} /\ blits = 0 /\ refreshes = 0
                       /\ clears = 0)
        /\ (Len(callLog) = 4 /\ CalledEveryFive(t0, 4))
               => (CommittedCalls = {4} /\ blits = 1 /\ refreshes = 1 /\ clears = 1)

C11_Witness ==
    \E t0 \in InitClocks :
        Len(callLog) = 4 /\ CalledEveryFive(t0, 4) /\ blits = 1 /\ refreshes = 1

\* C12: the clocks read on entry by two committed calls are at least
\* FRAME_INTERVAL apart, however closely update() is called: no two blits are
\* less than one interval apart.
C12_CommitsAnIntervalApart ==
    \A i \in CommittedCalls, j \in CommittedCalls :
        i < j => U32Ge(U32Sub(callLog[j].at, callLog[i].at), FRAME_INTERVAL)

C12_Witness ==
    \E i \in CommittedCalls :
        /\ i + 1 \in CommittedCalls
        /\ U32Sub(callLog[i + 1].at, callLog[i].at) = U32(FRAME_INTERVAL)

\* C13: in the loop `init; while (System::Update()) { draw calls }` every blit,
\* the first one after init included, shows a canvas that was cleared to the
\* current background colour since the previous blit or since init.
C13_BlitShowsClearedCanvas ==
    [][blits' # blits => canvasFill = m_backgroundColor]_vars

----------------------------------------------------------------------------
(* The shapes' contains() *)

ContainsCalled(kind) ==
    call.f = "contains" /\ call.done /\ call.args.shape.kind = kind

\* C14: Rect::contains is half-open on both axes: it contains exactly the
\* points with x <= p.x < x + width and y <= p.y < y + height, so the left and
\* top edges are inside, the right and bottom edges are outside, and a
\* rectangle with width <= 0 or height <= 0 contains no point.
C14_RectHalfOpen ==
    ContainsCalled("Rect") =>
        LET r == call.args.shape
            p == call.args.point
        IN  /\ call.out <=> /\ p[1] \in r.x .. (r.x + r.width - 1)
                             /\ p[2] \in r.y .. (r.y + r.height - 1)
            /\ (p[1] = r.x + r.width \/ p[2] = r.y + r.height) => ~call.out
            /\ (r.width <= 0 \/ r.height <= 0) => ~call.out
            /\ (p = <<r.x, r.y>> /\ r.width > 0 /\ r.height > 0) => call.out

C14_Witness ==
    /\ ContainsCalled("Rect")
    /\ call.args.shape.width > 0
    /\ call.args.point[1] = call.args.shape.x + call.args.shape.width
    /\ call.args.point[2] = call.args.shape.y
    /\ ~call.out

\* C15: Circle::contains is closed: it contains exactly the points whose
\* squared distance from the centre is at most r * r, the points at distance
\* exactly r included.
C15_CircleClosed ==
    ContainsCalled("Circle") =>
        LET c == call.args.shape
            dx == call.args.point[1] - c.x
            dy == call.args.point[2] - c.y
        IN  /\ call.out <=> dx * dx + dy * dy <= c.r * c.r
            /\ (dx * dx + dy * dy = c.r * c.r) => call.out
            /\ (dx * dx + dy * dy = c.r * c.r + 1) => ~call.out

C15_Witness ==
    /\ ContainsCalled("Circle")
    /\ call.args.shape.r = 5
    /\ call.args.point = <<call.args.shape.x + 3, call.args.shape.y + 4>>
    /\ call.out

----------------------------------------------------------------------------
(* Color *)

\* C16: for every 16-bit value v, Color(v).toRGB565() = v: unpacking an RGB565
\* value into 8-bit channels and packing it again gives the value back.
C16_RGB565RoundTrip ==
    (call.f = "Color" /\ call.done) => call.out.rgb565 = call.args.rgb565

C16_Witness ==
    /\ call.f = "Color"
    /\ call.done
    /\ call.args.rgb565 = 2^16 - 1
    /\ call.out = [color |-> [r |-> 255, g |-> 255, b |-> 255], rgb565 |-> 2^16 - 1]

----------------------------------------------------------------------------
(* Input::IMU *)

\* The angle one axis must hold after the call: alpha * (before + rate *
\* gyroScale * deltaTime) + (1 - alpha) * accelAngle, as one fraction over
\* the product of the denominators.
ExpectedAngle(before, rate, accelAngle) ==
    LET arg == call.args
        al == arg.alpha
        dt == arg.deltaTime
        gs == arg.gyroScale
        den == al.d * before.d * gs.d * dt.d * accelAngle.d
        gyroPart == al.n * (before.n * gs.d * dt.d + rate * gs.n * dt.n * before.d)
                        * accelAngle.d
        accelPart == (al.d - al.n) * accelAngle.n * before.d * gs.d * dt.d
    IN  Rat(gyroPart + accelPart, den)

\* C17: updateAttitude stores, for each axis on its own, alpha * (currentAngle
\* + gyroRate * gyroScale * deltaTime) + (1 - alpha) * accelAngle; with
\* alpha = 1 that is the gyro integration whatever the accelerometer reads,
\* with alpha = 0 the accelerometer angle whatever the gyro rate, deltaTime
\* and the stored angle are.
C17_ComplementaryFilter ==
    call.f = "updateAttitude" =>
        LET arg == call.args
            before == call.out.before
            acc == AccelAngles(arg.accel)
            eRoll == ExpectedAngle(before.roll, arg.gyro.x, acc.roll)
            ePitch == ExpectedAngle(before.pitch, arg.gyro.y, acc.pitch)
            eYaw == ExpectedAngle(before.yaw, arg.gyro.z, acc.yaw)
            step == RatMul(arg.gyroScale, arg.deltaTime)
        IN  /\ m_currentAngles.roll = eRoll
            /\ m_currentAngles.pitch = ePitch
            /\ m_currentAngles.yaw = eYaw
            /\ arg.alpha = Rat(1, 1) =>
                   /\ m_currentAngles.roll
                          = RatAdd(before.roll, RatMul(Rat(arg.gyro.x, 1), step))
                   /\ m_currentAngles.pitch
                          = RatAdd(before.pitch, RatMul(Rat(arg.gyro.y, 1), step))
                   /\ m_currentAngles.yaw
                          = RatAdd(before.yaw, RatMul(Rat(arg.gyro.z, 1), step))
            /\ arg.alpha = Rat(0, 1) => m_currentAngles = acc

C17_Witness ==
    /\ call.f = "updateAttitude"
    /\ call.out.nth = 2
    /\ call.out.before # ZeroAngles
    /\ call.args.alpha = Rat(0, 1)
    /\ call.args.gyro.x # 0
    /\ m_currentAngles = [roll |-> Rat(90, 1), pitch |-> Rat(0, 1), yaw |-> Rat(0, 1)]

----------------------------------------------------------------------------
(* Image *)

\* C18: whenever loadBase64 fails, on any failure path, it returns false with
\* no partial state committed: afterwards isEmpty() is true, the previous
\* sprite is deleted and no new sprite remains allocated, and width() and
\* height() do not carry the failed input's dimensions.
C18_FailedLoadCommitsNothing ==
    (call.f = "loadBase64" /\ ~call.out.ret) =>
        /\ isEmpty(image)
        /\ ~image.sprite.allocated
        /\ <<image.m_width, image.m_height>> = call.args.dims
               => <<call.out.before.m_width, call.out.before.m_height>>
                      = call.args.dims

----------------------------------------------------------------------------
(* SimpleGUI *)

\* C19: SimpleGUI::Button returns a function of its arguments and of the touch
\* snapshot alone: true iff the button is enabled and the snapshot has an up
\* edge whose position lies inside Rect(pos.x, pos.y, width, 24); a disabled
\* button never returns true, and no earlier call or refresh matters.
C19_ButtonPure ==
    call.f = "Button" =>
        LET a == call.args
            c == call.out.cur
            p == call.out.prev
        IN  /\ call.out.ret <=>
                   /\ a.enabled
                   /\ ~c.pressed /\ p.pressed
                   /\ c.x \in a.pos[1] .. (a.pos[1] + a.width - 1)
                   /\ c.y \in a.pos[2] .. (a.pos[2] + 24 - 1)
            /\ ~a.enabled => ~call.out.ret

C19_Witness ==
    /\ call.f = "Button"
    /\ call.args = [pos |-> <<10, -10>>, width |-> 10, enabled |-> TRUE]
    /\ call.out.ret
    /\ Len(hist) = 3

----------------------------------------------------------------------------
(* Input::ButtonState *)

\* C20: down() is edge-triggered for every input source that has it, for
\* TouchInput::down() and ButtonState::down() alike: it is true only after the
\* refresh in which the level went from released to pressed and false after
\* the following refreshes while the touch or button stays held; pressed() is
\* the level-triggered query.
C20_DownIsEdgeEverywhere ==
    /\ obs.q = <<"Touch", "down">> => (obs.b <=> cur.pressed /\ ~prev.pressed)
    /\ obs.q = <<"Touch", "pressed">> => (obs.b <=> cur.pressed)
    /\ obs.q = <<"ButtonA", "down">> => (obs.b <=> btn.press /\ ~btn.oldPress)
    /\ obs.q = <<"ButtonA", "pressed">> => (obs.b <=> btn.press)

----------------------------------------------------------------------------
(* The frame statistics *)

\* C21: the frame statistics are written exactly once per committed tick and
\* never otherwise: m_frameCount equals the number of blits, of canvas clears
\* and of input refreshes, m_averageFrameTime has had one frame time folded
\* in per committed tick, and a call writes m_deltaTime, m_averageFrameTime
\* and m_previousTime once if it blits and not at all if it does not.
C21_StatsOncePerCommit ==
    /\ m_frameCount = blits
    /\ m_frameCount = clears
    /\ m_frameCount = refreshes
    /\ Len(m_averageFrameTime) = m_frameCount
    /\ Occurrences(effects, "time") = Occurrences(effects, "blit")
    /\ Occurrences(effects, "time") <= 1
    /\ m_frameCount = 0 =>
           (m_deltaTime = U32(0) /\ m_previousTime = U32(0))

C21_Witness ==
    /\ calls = 3
    /\ m_frameCount = 2
    /\ Len(m_averageFrameTime) = 2
    /\ effects = CommittedWithSleep

\* C22: m_deltaTime is never negative, also after the millisecond clock has
\* wrapped around between two committed ticks: the difference currentTime -
\* m_previousTime is an unsigned 32-bit value.
C22_DeltaTimeNonNegative ==
    /\ m_deltaTime.hi >= 0
    /\ m_deltaTime.lo >= 0
    /\ m_deltaTime.hi < Limb
    /\ m_deltaTime.lo < Limb

\* Two committed ticks with the wrap between their timing updates: the later
\* one read a clock value smaller than the frame time it measured.
C22_Witness ==
    /\ m_frameCount >= 2
    /\ m_previousTime.hi = 0
    /\ m_deltaTime.hi = 0
    /\ m_deltaTime.lo > m_previousTime.lo

\* C23: the slack sleep is clamped at zero.  On a committed tick M5.delay is
\* called exactly when the tick has spent less than FRAME_INTERVAL since it read
\* the clock, with the strictly positive argument FRAME_INTERVAL minus the time
\* spent, and is skipped otherwise; as the delay sleeps at least its argument, the
\* call returns no earlier than FRAME_INTERVAL after its clock read.
C23_SlackClamped ==
    [][blits' # blits =>
        /\ slack'.slept <=> ~U32Ge(slack'.spent, FRAME_INTERVAL)
        /\ slack'.slept =>
              /\ slack'.remaining > 0
              /\ U32Add(slack'.spent, slack'.remaining) = U32(FRAME_INTERVAL)
        /\ Occurrences(effects', "sleep") = (IF slack'.slept THEN 1 ELSE 0)
        /\ U32Ge(U32Sub(now', now), FRAME_INTERVAL)]_vars

C23_Witness ==
    /\ m_frameCount = 2
    /\ slack.slept
    /\ slack.spent = U32(3)
    /\ slack.remaining = FRAME_INTERVAL - 3
    /\ effects = CommittedWithSleep

C23_WitnessSkipped ==
    /\ m_frameCount = 1
    /\ ~slack.slept
    /\ slack.spent = U32(FRAME_INTERVAL + 1)
    /\ effects = CommittedNoSleep

----------------------------------------------------------------------------
(* SimpleGUI::CheckBox and SimpleGUI::Slider *)

\* The touch hardware was released between the last two refreshes.
ReleasedAtLastRefresh ==
    /\ Len(hist) >= 2
    /\ hist[Len(hist) - 1].pressed
    /\ ~hist[Len(hist)].pressed

C24_WitnessBackground ==
    /\ obs.q = <<"SimpleGUI", "CheckBox">>
    /\ ~obs.b
    /\ ~checked
    /\ call.args = [pos |-> <<-15, 0>>, width |-> DefaultWidth, enabled |-> TRUE]
    /\ ReleasedAtLastRefresh
    /\ hist[Len(hist)].x = 12

\* C25: Slider(value, pos, min, max, width, enabled) with min <= max and
\* width > 8.  When the slider is enabled and the touch is pressed inside
\* Rect(pos.x, pos.y, width, 24), value becomes
\* min + (max - min) * clamp((touch.x - (pos.x + 4)) / (width - 8), 0, 1) and
\* the call returns true, whether or not value changed; in every other call
\* value is left as it was and the call returns false.
C25_SliderValue ==
    [][(obs = NoObs /\ obs'.q = <<"SimpleGUI", "Slider">>) =>
        LET a == call'.args
            inside == /\ cur.pressed
                      /\ cur.x \in a.pos[1] .. (a.pos[1] + a.width - 1)
                      /\ cur.y \in a.pos[2] .. (a.pos[2] + 24 - 1)
            offset == cur.x - (a.pos[1] + 4)
            track == a.width - 8
            fraction == IF offset < 0 THEN Rat(0, 1)
                        ELSE IF offset > track THEN Rat(1, 1)
                        ELSE Rat(offset, track)
            expected == RatAdd(a.min, RatMul(RatSub(a.max, a.min), fraction))
        IN  IF a.enabled /\ inside
            THEN value' = expected /\ obs'.b
            ELSE value' = value /\ ~obs'.b]_vars

C25_Witness ==
    /\ obs.q = <<"SimpleGUI", "Slider">>
    /\ obs.b
    /\ call.args.pos = <<0, 0>>
    /\ call.args.width = 16
    /\ call.args.min = Rat(-2, 1)
    /\ cur.x = 5
    /\ value = Rat(-3, 2)

C25_WitnessClamped ==
    /\ obs.q = <<"SimpleGUI", "Slider">>
    /\ obs.b
    /\ call.args.pos = <<3, 0>>
    /\ call.args.width = 10
    /\ call.args.max = Rat(2, 1)
    /\ cur.x = 12
    /\ value = Rat(2, 1)

----------------------------------------------------------------------------
(* Triangle::contains *)

\* Twice the signed area of (a, b, p): positive when p is left of a -> b.
Orient(a, b, p) ==
    (b[1] - a[1]) * (p[2] - a[2]) - (b[2] - a[2]) * (p[1] - a[1])

Between(u, v, w) == (u <= w /\ w <= v) \/ (v <= w /\ w <= u)

\* p lies on the closed segment from a to b (the point a when a = b).
OnSegment(a, b, p) ==
    /\ Orient(a, b, p) = 0
    /\ Between(a[1], b[1], p[1])
    /\ Between(a[2], b[2], p[2])

Proper(a, b, c) == Orient(a, b, c) # 0

\* Membership in the closed convex hull of a, b, c: for a proper triangle p is
\* on the same side of the three edges (or on one); for collinear or
\* coincident vertices the hull is a segment or a point.
InHull(a, b, c, p) ==
    IF Proper(a, b, c)
    THEN \/ Orient(a, b, p) >= 0 /\ Orient(b, c, p) >= 0 /\ Orient(c, a, p) >= 0
         \/ Orient(a, b, p) <= 0 /\ Orient(b, c, p) <= 0 /\ Orient(c, a, p) <= 0
    ELSE OnSegment(a, b, p) \/ OnSegment(b, c, p) \/ OnSegment(c, a, p)

TriangleCalled == ContainsCalled("Triangle")

VertexA == <<call.args.shape.x1, call.args.shape.y1>>
VertexB == <<call.args.shape.x2, call.args.shape.y2>>
VertexC == <<call.args.shape.x3, call.args.shape.y3>>

\* C26: for every triangle with integer vertices and every integer point of
\* the grid, Triangle::contains(p) is true exactly when p lies in the closed
\* triangle (interior, edges, vertices), degenerate triangles with collinear or
\* coincident vertices included.
C26_TriangleContainsIsMembership ==
    TriangleCalled =>
        (call.out <=> InHull(VertexA, VertexB, VertexC, call.args.point))

\* The part of C26 that the code meets: proper triangles.
C26_ProperTriangles ==
    (TriangleCalled /\ Proper(VertexA, VertexB, VertexC)) =>
        (call.out <=> InHull(VertexA, VertexB, VertexC, call.args.point))

\* A degenerate triangle never misses a point of its hull; it accepts more.
C26_DegenerateAcceptsHull ==
    (TriangleCalled /\ InHull(VertexA, VertexB, VertexC, call.args.point)) =>
        call.out

C26_CoincidentAcceptsAll ==
    /\ TriangleCalled
    /\ VertexA = <<0, 0>> /\ VertexB = <<0, 0>> /\ VertexC = <<0, 0>>
    /\ call.args.point = <<1, 1>>
    /\ call.out

C26_CollinearAcceptsLine ==
    /\ TriangleCalled
    /\ VertexA = <<0, 0>> /\ VertexB = <<1, 1>> /\ VertexC = <<2, 2>>
    /\ call.args.point = <<3, 3>>
    /\ call.out

----------------------------------------------------------------------------
(* The loop after its first committed tick *)

\* C27: once a committed tick has occurred, every later call of update() is a
\* committed tick (the clock is monotone and the delay sleeps at least its
\* argument): it blits and refreshes the input once, so the loop body runs once
\* per input snapshot, the snapshot moves on by exactly one generation, and no
\* touch edge is seen by two executions of the body.
C27_EveryLaterCallCommits ==
    [][(UpdateStep /\ m_frameCount >= 1) =>
        /\ blits' = blits + 1
        /\ m_frameCount' = m_frameCount + 1
        /\ refreshes' = refreshes + 1
        /\ prev' = cur
        /\ ~(TouchDown /\ TouchDown')
        /\ ~(TouchUp /\ TouchUp')]_vars

C27_Witness ==
    /\ calls = 3
    /\ m_frameCount = 3
    /\ refreshes = 3
    /\ TouchUp
    /\ effects = CommittedWithSleep

C27_WitnessIdleCalls ==
    /\ calls = 3
    /\ m_frameCount = 2
    /\ cur.pressed /\ prev.pressed

----------------------------------------------------------------------------
(* The alternation of the touch edges *)

\* The touch controller was enabled at every refresh so far.
EnabledThroughout == \A i \in DOMAIN hist : hist[i].en

C28_EdgesAlternateAlways ==
    /\ \A i \in DOMAIN edges :
           edges[i].up => \E j \in 1 .. (i - 1) : edges[j].down
    /\ \A i, j \in DOMAIN edges :
           (i < j /\ edges[i].down /\ edges[j].down) =>
               \E k \in (i + 1) .. (j - 1) : edges[k].up

----------------------------------------------------------------------------
(* The commit decision across the wrap of the clock *)

\* The true time since lastDrawTime was assigned, taken without any wrap.
TrueElapsed == uptime - drawUptime

\* The clock has wrapped since lastDrawTime was assigned.
WrappedSinceDraw == now.hi = 0 /\ lastDrawTime.hi = Limb - 1

\* C29: an update() call commits exactly when the true time elapsed since
\* lastDrawTime was assigned is at least FRAME_INTERVAL, also when the 32-bit
\* clock has wrapped in between; a call that does not commit blits nothing.
C29_CommitIffElapsed ==
    [][UpdateStep =>
        /\ (blits' = blits + 1) <=> (TrueElapsed >= FRAME_INTERVAL)
        /\ blits' # blits + 1 => (blits' = blits /\ lastDrawTime' = lastDrawTime)]_vars

\* A first commit whose clock read came after the wrap, lastDrawTime having
\* been assigned before it.
C29_Witness ==
    /\ m_frameCount = 1
    /\ lastDrawTime.hi = 0
    /\ lastDrawTime.lo < FRAME_INTERVAL
    /\ drawUptime >= FRAME_INTERVAL
    /\ Len(callLog) >= 1
    /\ callLog[Len(callLog)].committed

\* A call after the wrap that was early and did nothing.
C29_WitnessEarly ==
    /\ WrappedSinceDraw
    /\ m_frameCount = 0
    /\ Len(callLog) >= 1
    /\ callLog[Len(callLog)].at = now
    /\ ~callLog[Len(callLog)].committed

----------------------------------------------------------------------------
(* DeltaTime *)

\* A step that is a committed tick: updateTime has run once.
TimingStep == m_frameCount' = m_frameCount + 1

\* C30: after each committed tick DeltaTime is the clock time between this
\* tick's timing update and the previous tick's (kept in ms; the code divides
\* by 1000).  The reference of the first tick is the clock value 0, since
\* m_previousTime starts at 0 and System::init assigns lastDrawTime only, so the
\* first DeltaTime is the whole clock value at the first timing update.  The
\* same value is what is folded into the moving average.
C30_DeltaTimeBetweenTimingUpdates ==
    [][TimingStep =>
        /\ m_deltaTime' = U32Sub(m_previousTime', m_previousTime)
        /\ m_frameCount = 0 => (m_previousTime = U32(0) /\ m_deltaTime' = m_previousTime')
        /\ m_averageFrameTime' = Append(m_averageFrameTime, m_deltaTime')
        /\ ~U32Ge(U32Sub(now', m_previousTime'), U32Sub(now', now).lo + 1)]_vars

\* A second tick: its DeltaTime is the time since the first tick's timing
\* update, whose own frame time was the whole clock value.
C30_Witness ==
    /\ m_frameCount = 2
    /\ m_averageFrameTime[2] = m_deltaTime
    /\ m_averageFrameTime[1] = U32Sub(m_previousTime, m_deltaTime)
    /\ m_deltaTime = U32(FRAME_INTERVAL + 3)
    /\ m_averageFrameTime[1].lo >= 100

C30_WitnessFirst ==
    /\ m_frameCount = 1
    /\ m_deltaTime = m_previousTime
    /\ m_deltaTime.hi = Limb - 1

====
